---- MODULE Spec2Model ----
(***************************************************************************)
(* A model of the ingestion-store-fanout core of light-gelf-collector:     *)
(* the bounded in-memory store (src/src/storage.rs), its tokio RwLock, the *)
(* tokio broadcast channel behind DefaultBroadcaster and the SSE           *)
(* subscribers of src/src/web/handlers.rs; beside it the LogStore of       *)
(* src/src/main.rs, the same store with the broadcast under the lock; and  *)
(* the ingestion loop that feeds them (UdpMessageHandler::run in           *)
(* src/src/udp_handler.rs, handle_udp_message in src/src/main.rs).         *)
(*                                                                         *)
(* A record (GelfMessage) is modelled by a number: the number of the        *)
(* add_message call that carries it, or in the ingestion loop the number   *)
(* of the datagram it was parsed from; so every call carries a distinct    *)
(* record.                                                                 *)
(***************************************************************************)
EXTENDS Integers, Sequences, FiniteSets, TLC

\* ------------------------------------------------------------ bounds
\* Total number of add_message calls in one behaviour.
MaxAppends == 3
\* The store capacities (max_size) tried: 0..MaxCapacity.
MaxCapacity == 2
\* The limits a get_messages call may carry: Some(0)..Some(MaxLimit), or None.
MaxLimit == 3

\* The configured broadcast capacities tried with with_broadcaster: 1..MaxChannelCapacity.
MaxChannelCapacity == 2
\* Total number of add_message calls in one behaviour of the fan-out specification.
MaxPublishes == 4
\* Total number of add_message calls in one behaviour of the default-store specification.
MaxDefaultAppends == 130

\* Total number of recv_from returns (datagrams and errors) in one behaviour of the
\* ingestion specification.
MaxDatagrams == 3

\* The number of leading bytes of a sniffer input that are written out: 0..MaxBytes.
MaxBytes == 3
\* The number of further bytes of a sniffer input that holds a whole stream.
MaxBody == 20

\* The number of members of a JSON object whose values are varied: 0..MaxMembers.
MaxMembers == 2

\* Total number of add_message calls in one behaviour of the lock specification.
MaxLockAppends == 2

\* Total number of datagrams received in one behaviour of the shutdown specification.
MaxShutdownDatagrams == 2

\* The readings the wall clock takes in the clock specification: 0..MaxTicks.
MaxTicks == 1
\* Total number of add_message calls in one behaviour of the clock specification.
MaxClockAppends == 3

\* ------------------------------------------------------------ program constants
\* InMemoryMessageStore::new: DefaultBroadcaster::new(100).
DefaultChannelCapacity == 100
\* GelfMessage.level is an Option<u8>: the largest u8.
U8Max == 255

\* ------------------------------------------------------------ processes
Adders == {"a1", "a2"}
Readers == {"r1", "r2"}
Subscribers == {"s1", "s2"}
NoTask == "none"
\* The task that runs the ingestion loop; it is the add_message caller "a1".
UdpTask == "a1"

\* Option<usize>: None is the empty tuple, Some(k) the tuple <<k>>.
None == <<>>
Some(k) == <<k>>
Limits == {None} \cup {Some(k) : k \in 0..MaxLimit}

NoEntry == [gelf_message |-> 0, received_at |-> 0, raw_message |-> <<>>]
NoResponse == [gelf_message |-> 0, received_at |-> 0]
NoText == <<>>
\* A datagram: its first two bytes, its length, what the flate2 decoder makes of it
\* (ok and the text of the bytes it yields, or an error), and the text of its own bytes.
NoDatagram == [head |-> <<>>, len |-> 0, inflated |-> [ok |-> FALSE, text |-> NoText],
               text |-> NoText]

VARIABLES
  impl,         \* which store this is: "InMemoryMessageStore" or "LogStore"
  max_size,     \* InMemoryMessageStore.max_size
  messages,     \* InMemoryMessageStore.messages, oldest first
  lock,         \* the RwLock around messages: writer, readers, FIFO wait queue
  now,          \* the wall clock read by StoredMessage::new
  nextRec,      \* number of add_message calls made so far
  apc,          \* each add_message caller's position
  astored,      \* add_message's local stored_message
  aresponse,    \* add_message's local response
  rpc,          \* each reader's position
  rop,          \* "get" (get_messages) or "stats" (get_stats)
  rlimit,       \* the limit argument of get_messages
  rtake,        \* limit.unwrap_or(len), fixed under the read guard
  rcursor,      \* position of the reverse iterator in messages
  rresult,      \* the value being collected / returned
  chanCap,      \* the capacity DefaultBroadcaster::new was given
  buffer,       \* the broadcast channel's ring of slots, each [pos, val]
  tailPos,      \* the broadcast channel's tail position: number of values sent
  rxCnt,        \* the broadcast channel's receiver count
  spc,          \* each SSE subscriber's position
  snext,        \* each receiver's next position
  published,    \* history: the responses handed to broadcast(), in call order
  subPub,       \* history: Len(published) when the subscriber's subscribe() returned
  delivered,    \* history: the messages the subscriber's receives returned
  lagCount,     \* history: the lag signals the subscriber's receives returned
  skipped,      \* history: the messages those lag signals reported missed
  appended,     \* history: the entries pushed, in push_back order
  atCall,       \* history: messages when the reader's call was made
  snap,         \* history: messages when the reader's read guard was granted
  views,        \* history: every value messages took since the reader's call
  lagDeliv,     \* history: Len(delivered) when the subscriber last got a lag signal
  dropPub,      \* history: Len(published) when a subscriber handle was last dropped, or -1
  ppc,          \* the ingestion loop's position in run / handle_udp_message
  sock,         \* the UDP socket: "open", or "failed" when every receive fails from now on
  raw_data,     \* run's raw_data: the datagram in buf
  message_str,  \* run's message_str: the decoded text
  events,       \* history: what recv_from returned, in order
  input,        \* the argument of a pure function applied on its own
  output,       \* None, or Some of what that function returned
  mpc,          \* main's position: at the select over the two tasks, or returned
  http          \* the HTTP server task: "serving" or "terminated"

storeVars == <<impl, max_size, messages, lock, now, nextRec>>
adderVars == <<apc, astored, aresponse, appended>>
readerVars == <<rpc, rop, rlimit, rtake, rcursor, rresult, atCall, snap, views>>
chanVars == <<chanCap, buffer, tailPos, rxCnt, published>>
subVars == <<spc, snext, subPub, delivered, lagCount, skipped>>
fanHist == <<lagDeliv, dropPub>>
pipeVars == <<ppc, sock, raw_data, message_str, events>>
funcVars == <<input, output>>
mainVars == <<mpc, http>>
vars == <<storeVars, adderVars, readerVars, chanVars, subVars, fanHist, pipeVars, funcVars,
          mainVars>>

\* ------------------------------------------------------------ records
\* StoredMessage::new: the record, the clock at the call, the raw text.
StoredMessageNew(gelf_message, raw_message) ==
  [gelf_message |-> gelf_message, received_at |-> now, raw_message |-> raw_message]

\* Mutant of to_response: the response is stamped with the clock when it is made.
to_response_stamped(stored) ==
  [gelf_message |-> stored.gelf_message, received_at |-> now]

\* StoredMessage::to_response: the record and its reception time, raw text dropped.
to_response(stored) ==
  [gelf_message |-> stored.gelf_message, received_at |-> stored.received_at]

\* The decoded text an ingested record n comes from.
RawText(n) == <<n>>

\* ------------------------------------------------------------ the RwLock
\* tokio::sync::RwLock is a fair semaphore: a request is granted at once only when
\* nothing is queued and the holders allow it, and otherwise joins a FIFO queue; a
\* release hands the lock to the head of the queue for as long as the heads fit.
IsWriter(t) == t \in Adders

\* Mutant of CanHold: a reader is let in whatever the holders are.
CanHoldReadersAlways(l, t) ==
  IF IsWriter(t) THEN l.writer = NoTask /\ l.readers = {}
  ELSE TRUE

\* Mutant of CanHold: a writer excludes other writers only, not the readers.
CanHoldWritersIgnoreReaders(l, t) == l.writer = NoTask

CanHold(l, t) ==
  IF IsWriter(t) THEN l.writer = NoTask /\ l.readers = {}
  ELSE l.writer = NoTask

Hold(l, t) ==
  IF IsWriter(t) THEN [l EXCEPT !.writer = t]
  ELSE [l EXCEPT !.readers = @ \cup {t}]

\* Mutant of Grant: a release lets in everything that is queued.
RECURSIVE GrantAll(_)
GrantAll(l) ==
  IF l.queue # <<>>
  THEN GrantAll(Hold([l EXCEPT !.queue = Tail(@)], Head(l.queue)))
  ELSE l

RECURSIVE Grant(_)
Grant(l) ==
  IF l.queue # <<>> /\ CanHold(l, Head(l.queue))
  THEN Grant(Hold([l EXCEPT !.queue = Tail(@)], Head(l.queue)))
  ELSE l

\* Mutant of Acquire: a request the holders allow is granted past the queue.
AcquireBarging(l, t) ==
  IF CanHold(l, t) THEN Hold(l, t)
  ELSE [l EXCEPT !.queue = Append(@, t)]

Acquire(l, t) ==
  IF l.queue = <<>> /\ CanHold(l, t) THEN Hold(l, t)
  ELSE [l EXCEPT !.queue = Append(@, t)]

Release(l, t) ==
  Grant([l EXCEPT !.writer = IF @ = t THEN NoTask ELSE @,
                  !.readers = @ \ {t}])

HoldsWrite(t) == lock.writer = t
HoldsRead(t) == t \in lock.readers

\* ------------------------------------------------------------ the broadcast channel
\* tokio::sync::broadcast as DefaultBroadcaster uses it. channel(capacity) rounds the
\* capacity up to a power of two (capacity.next_power_of_two()) and allocates that many
\* slots, which it indexes by position & (length - 1); slot i starts with position
\* i - length and no value. A receiver holds the position it reads next; a slot whose
\* position is not the receiver's has either not been written yet (the receive waits)
\* or been overwritten (the receive reports Lagged and moves to the oldest value kept).
RECURSIVE PowerOfTwoFrom(_, _)
PowerOfTwoFrom(p, n) == IF p >= n THEN p ELSE PowerOfTwoFrom(2 * p, n)

next_power_of_two(n) == PowerOfTwoFrom(1, n)

\* DefaultBroadcaster::new(capacity): broadcast::channel(capacity).
ChannelLen(capacity) == next_power_of_two(capacity)

BufferLen == ChannelLen(chanCap)

NoVal == NoResponse

NewBuffer(capacity) ==
  [i \in 0..(ChannelLen(capacity) - 1) |-> [pos |-> i - ChannelLen(capacity), val |-> NoVal]]

\* Sender::send: with no receiver the value is returned in an error and nothing is
\* stored; otherwise it overwrites the slot of the tail position and the tail advances.
\* It never waits.
send(ch, value) ==
  IF rxCnt = 0 THEN ch
  ELSE [buffer |-> [ch.buffer EXCEPT ![ch.tailPos % BufferLen] =
                                     [pos |-> ch.tailPos, val |-> value]],
        tailPos |-> ch.tailPos + 1]

\* Mutant of SubscribeNext: the new receiver starts at the oldest retained value.
SubscribeOldest == IF tailPos > BufferLen THEN tailPos - BufferLen ELSE 0

\* Sender::subscribe: the new receiver starts at the tail.
SubscribeNext == tailPos

\* Mutant of RecvOutcome: a received value does not advance the receiver.
RecvOutcomeNoAdvance(next) ==
  LET slot == buffer[next % BufferLen] IN
    IF slot.pos = next
    THEN [kind |-> "ok", val |-> slot.val, next |-> next, missed |-> 0]
    ELSE IF slot.pos + BufferLen = next
    THEN [kind |-> "empty", val |-> NoVal, next |-> next, missed |-> 0]
    ELSE [kind |-> "lagged", val |-> NoVal, next |-> tailPos - BufferLen,
          missed |-> tailPos - BufferLen - next]

\* Mutant of RecvOutcome: an overwritten slot is not reported; the receiver silently
\* goes on from the oldest retained value.
RecvOutcomeSilentSkip(next) ==
  LET slot == buffer[next % BufferLen] IN
    IF slot.pos = next
    THEN [kind |-> "ok", val |-> slot.val, next |-> next + 1, missed |-> 0]
    ELSE IF slot.pos + BufferLen = next
    THEN [kind |-> "empty", val |-> NoVal, next |-> next, missed |-> 0]
    ELSE LET oldest == tailPos - BufferLen IN
           [kind |-> "ok", val |-> buffer[oldest % BufferLen].val, next |-> oldest + 1,
            missed |-> 0]

\* Mutant of RecvOutcome: a lagging receiver is moved to the tail, past the values the
\* channel still retains.
RecvOutcomeLagToTail(next) ==
  LET slot == buffer[next % BufferLen] IN
    IF slot.pos = next
    THEN [kind |-> "ok", val |-> slot.val, next |-> next + 1, missed |-> 0]
    ELSE IF slot.pos + BufferLen = next
    THEN [kind |-> "empty", val |-> NoVal, next |-> next, missed |-> 0]
    ELSE LET oldest == tailPos - BufferLen IN
           [kind |-> "lagged", val |-> NoVal, next |-> tailPos, missed |-> oldest - next]

\* Receiver::recv on receiver position next: "empty" (the receive waits), "ok" with the
\* slot's value, or "lagged" with the position of the oldest retained value.
RecvOutcome(next) ==
  LET slot == buffer[next % BufferLen] IN
    IF slot.pos = next
    THEN [kind |-> "ok", val |-> slot.val, next |-> next + 1, missed |-> 0]
    ELSE IF slot.pos + BufferLen = next
    THEN [kind |-> "empty", val |-> NoVal, next |-> next, missed |-> 0]
    ELSE LET oldest == tailPos - BufferLen IN
           IF oldest - next = 0
           THEN [kind |-> "ok", val |-> slot.val, next |-> next + 1, missed |-> 0]
           ELSE [kind |-> "lagged", val |-> NoVal, next |-> oldest, missed |-> oldest - next]

\* ------------------------------------------------------------ add_message
\* The history of store values seen by the readers whose call is in progress.
Observe(q) ==
  [r \in Readers |-> IF rpc[r] \in {"waiting", "iter"} THEN views[r] \cup {q} ELSE views[r]]

\* Mutant of EvictCond: the loop stops one entry early.
EvictCondOffByOne(len) == len > max_size + 1

\* while messages_guard.len() > max_size
EvictCond(len) == len > max_size

\* messages_guard.push_back(stored_message)
push_back(q, e) == Append(q, e)

\* Mutant of pop_front: the newest entry is removed.
pop_back(q) == SubSeq(q, 1, Len(q) - 1)

\* messages_guard.pop_front()
pop_front(q) == Tail(q)

\* add_message is called: stored_message and response are built before the future runs.
AddCall(a, maxAppends) ==
  /\ impl = "InMemoryMessageStore"
  /\ apc[a] = "idle"
  /\ nextRec < maxAppends
  /\ nextRec' = nextRec + 1
  /\ LET stored_message == StoredMessageNew(nextRec + 1, RawText(nextRec + 1)) IN
       /\ astored' = [astored EXCEPT ![a] = stored_message]
       /\ aresponse' = [aresponse EXCEPT ![a] = to_response(stored_message)]
  /\ apc' = [apc EXCEPT ![a] = "created"]
  /\ UNCHANGED <<fanHist, pipeVars, funcVars, mainVars>>
  /\ UNCHANGED <<impl, max_size, messages, lock, now, appended, readerVars, chanVars, subVars>>

\* Mutant of AddWrite: the response is broadcast before the write lock is asked for.
AddWritePublishFirst(a) ==
  /\ apc[a] = "created"
  /\ LET ch == send([buffer |-> buffer, tailPos |-> tailPos], aresponse[a]) IN
       /\ buffer' = ch.buffer
       /\ tailPos' = ch.tailPos
  /\ published' = Append(published, aresponse[a])
  /\ lock' = Acquire(lock, a)
  /\ apc' = [apc EXCEPT ![a] = "waiting"]
  /\ UNCHANGED <<fanHist, pipeVars, funcVars, mainVars>>
  /\ UNCHANGED <<impl, max_size, messages, now, nextRec, astored, aresponse, appended, readerVars,
                 chanCap, rxCnt, subVars>>

\* messages.write().await: the first poll asks for the write lock (both stores).
AddWrite(a) ==
  /\ apc[a] = "created"
  /\ lock' = Acquire(lock, a)
  /\ apc' = [apc EXCEPT ![a] = "waiting"]
  /\ UNCHANGED <<fanHist, pipeVars, funcVars, mainVars>>
  /\ UNCHANGED <<impl, max_size, messages, now, nextRec, astored, aresponse, appended, readerVars, chanVars, subVars>>

\* With the write guard: push_back.
AddPushBack(a) ==
  /\ impl = "InMemoryMessageStore"
  /\ apc[a] = "waiting"
  /\ HoldsWrite(a)
  /\ messages' = push_back(messages, astored[a])
  /\ appended' = Append(appended, astored[a])
  /\ views' = Observe(messages')
  /\ apc' = [apc EXCEPT ![a] = "evict"]
  /\ UNCHANGED <<fanHist, pipeVars, funcVars, mainVars>>
  /\ UNCHANGED <<impl, max_size, lock, now, nextRec, astored, aresponse,
                 rpc, rop, rlimit, rtake, rcursor, rresult, atCall, snap, chanVars, subVars>>

\* One turn of the eviction loop (both stores).
AddPopFront(a) ==
  /\ apc[a] = "evict"
  /\ EvictCond(Len(messages))
  /\ messages' = pop_front(messages)
  /\ views' = Observe(messages')
  /\ UNCHANGED <<fanHist, pipeVars, funcVars, mainVars>>
  /\ UNCHANGED <<impl, max_size, lock, now, nextRec, adderVars,
                 rpc, rop, rlimit, rtake, rcursor, rresult, atCall, snap, chanVars, subVars>>

\* The loop ends and the block closes: the write guard is dropped.
AddUnlock(a) ==
  /\ impl = "InMemoryMessageStore"
  /\ apc[a] = "evict"
  /\ ~EvictCond(Len(messages))
  /\ lock' = Release(lock, a)
  /\ apc' = [apc EXCEPT ![a] = "broadcast"]
  /\ UNCHANGED <<fanHist, pipeVars, funcVars, mainVars>>
  /\ UNCHANGED <<impl, max_size, messages, now, nextRec, astored, aresponse, appended, readerVars, chanVars, subVars>>

\* Mutant of AddBroadcast: the publish waits until the channel has a receiver.
AddBroadcastNeedsReceiver(a) ==
  /\ apc[a] = "broadcast"
  /\ rxCnt > 0
  /\ LET ch == send([buffer |-> buffer, tailPos |-> tailPos], aresponse[a]) IN
       /\ buffer' = ch.buffer
       /\ tailPos' = ch.tailPos
  /\ published' = Append(published, aresponse[a])
  /\ apc' = [apc EXCEPT ![a] = "idle"]
  /\ astored' = [astored EXCEPT ![a] = NoEntry]
  /\ aresponse' = [aresponse EXCEPT ![a] = NoResponse]
  /\ UNCHANGED <<fanHist, pipeVars, funcVars, mainVars>>
  /\ UNCHANGED <<impl, max_size, messages, lock, now, nextRec, appended, readerVars,
                 chanCap, rxCnt, subVars>>

\* let _ = broadcaster.broadcast(response): the result of send is ignored.
AddBroadcast(a) ==
  /\ apc[a] = "broadcast"
  /\ LET ch == send([buffer |-> buffer, tailPos |-> tailPos], aresponse[a]) IN
       /\ buffer' = ch.buffer
       /\ tailPos' = ch.tailPos
  /\ published' = Append(published, aresponse[a])
  /\ apc' = [apc EXCEPT ![a] = "idle"]
  /\ astored' = [astored EXCEPT ![a] = NoEntry]
  /\ aresponse' = [aresponse EXCEPT ![a] = NoResponse]
  /\ UNCHANGED <<fanHist, pipeVars, funcVars, mainVars>>
  /\ UNCHANGED <<impl, max_size, messages, lock, now, nextRec, appended, readerVars,
                 chanCap, rxCnt, subVars>>

\* ------------------------------------------------------------ LogStore::add_message
\* LogStore::add_message is called with its record and raw text; its body has not run.
LogStoreAddCall(a, maxAppends) ==
  /\ impl = "LogStore"
  /\ apc[a] = "idle"
  /\ nextRec < maxAppends
  /\ nextRec' = nextRec + 1
  /\ astored' = [astored EXCEPT ![a] =
                   [gelf_message |-> nextRec + 1, received_at |-> 0,
                    raw_message |-> RawText(nextRec + 1)]]
  /\ apc' = [apc EXCEPT ![a] = "created"]
  /\ UNCHANGED <<fanHist, pipeVars, funcVars, mainVars>>
  /\ UNCHANGED <<impl, max_size, messages, lock, now, aresponse, appended, readerVars,
                 chanVars, subVars>>

\* Mutant of LogStorePushBack: the new entry goes to the front of the deque.
LogStorePushFront(a) ==
  /\ impl = "LogStore"
  /\ apc[a] = "waiting"
  /\ HoldsWrite(a)
  /\ LET stored_message == StoredMessageNew(astored[a].gelf_message, astored[a].raw_message) IN
       /\ astored' = [astored EXCEPT ![a] = stored_message]
       /\ aresponse' = [aresponse EXCEPT ![a] = to_response(stored_message)]
       /\ messages' = <<stored_message>> \o messages
       /\ appended' = Append(appended, stored_message)
  /\ views' = Observe(messages')
  /\ apc' = [apc EXCEPT ![a] = "evict"]
  /\ UNCHANGED <<fanHist, pipeVars, funcVars, mainVars>>
  /\ UNCHANGED <<impl, max_size, lock, now, nextRec,
                 rpc, rop, rlimit, rtake, rcursor, rresult, atCall, snap, chanVars, subVars>>

\* With the write guard: stored_message is built with the clock, response from it, and
\* stored_message is pushed.
LogStorePushBack(a) ==
  /\ impl = "LogStore"
  /\ apc[a] = "waiting"
  /\ HoldsWrite(a)
  /\ LET stored_message == StoredMessageNew(astored[a].gelf_message, astored[a].raw_message) IN
       /\ astored' = [astored EXCEPT ![a] = stored_message]
       /\ aresponse' = [aresponse EXCEPT ![a] = to_response(stored_message)]
       /\ messages' = push_back(messages, stored_message)
       /\ appended' = Append(appended, stored_message)
  /\ views' = Observe(messages')
  /\ apc' = [apc EXCEPT ![a] = "evict"]
  /\ UNCHANGED <<fanHist, pipeVars, funcVars, mainVars>>
  /\ UNCHANGED <<impl, max_size, lock, now, nextRec,
                 rpc, rop, rlimit, rtake, rcursor, rresult, atCall, snap, chanVars, subVars>>

\* Mutant of LogStoreBroadcast: a send that waits, with the write guard, until every
\* subscriber has room for the message.
LogStoreBroadcastWaitsForRoom(a) ==
  /\ impl = "LogStore"
  /\ apc[a] = "evict"
  /\ ~EvictCond(Len(messages))
  /\ \A s \in Subscribers : spc[s] = "subscribed" => tailPos - snext[s] < BufferLen
  /\ LET ch == send([buffer |-> buffer, tailPos |-> tailPos], aresponse[a]) IN
       /\ buffer' = ch.buffer
       /\ tailPos' = ch.tailPos
  /\ published' = Append(published, aresponse[a])
  /\ apc' = [apc EXCEPT ![a] = "unlock"]
  /\ UNCHANGED <<fanHist, pipeVars, funcVars, mainVars>>
  /\ UNCHANGED <<impl, max_size, messages, lock, now, nextRec, astored, aresponse, appended,
                 readerVars, chanCap, rxCnt, subVars>>

\* The loop ends; self.broadcast_tx.send(response), still with the write guard.
LogStoreBroadcast(a) ==
  /\ impl = "LogStore"
  /\ apc[a] = "evict"
  /\ ~EvictCond(Len(messages))
  /\ LET ch == send([buffer |-> buffer, tailPos |-> tailPos], aresponse[a]) IN
       /\ buffer' = ch.buffer
       /\ tailPos' = ch.tailPos
  /\ published' = Append(published, aresponse[a])
  /\ apc' = [apc EXCEPT ![a] = "unlock"]
  /\ UNCHANGED <<fanHist, pipeVars, funcVars, mainVars>>
  /\ UNCHANGED <<impl, max_size, messages, lock, now, nextRec, astored, aresponse, appended,
                 readerVars, chanCap, rxCnt, subVars>>

\* The function returns: the write guard is dropped.
LogStoreUnlock(a) ==
  /\ impl = "LogStore"
  /\ apc[a] = "unlock"
  /\ lock' = Release(lock, a)
  /\ apc' = [apc EXCEPT ![a] = "idle"]
  /\ astored' = [astored EXCEPT ![a] = NoEntry]
  /\ aresponse' = [aresponse EXCEPT ![a] = NoResponse]
  /\ UNCHANGED <<fanHist, pipeVars, funcVars, mainVars>>
  /\ UNCHANGED <<impl, max_size, messages, now, nextRec, appended, readerVars, chanVars, subVars>>

\* ------------------------------------------------------------ get_messages, get_stats
\* The reverse iterator's element at position i (i counts from the front, 1-based).
EntryAt(q, i) == IF i \in DOMAIN q THEN q[i] ELSE NoEntry

\* Mutant of unwrap_or: limit.unwrap_or_default(), an absent limit counts as 0.
unwrap_or_default(limit, default) == IF limit = None THEN 0 ELSE limit[1]

\* limit.unwrap_or(messages_guard.len())
unwrap_or(limit, default) == IF limit = None THEN default ELSE limit[1]

\* get_stats's JSON value; the percentage is kept as the exact fraction length * 100 / capacity
\* (numerator and denominator), capacity 0 not special-cased.
\* A get_stats that counts every message ever appended.
StatsValueCountsAll(len) ==
  [total_messages |-> Len(appended),
   max_capacity |-> max_size,
   capacity_used_percent |-> [num |-> Len(appended) * 100, den |-> max_size]]

StatsValue(len) ==
  [total_messages |-> len,
   max_capacity |-> max_size,
   capacity_used_percent |-> [num |-> len * 100, den |-> max_size]]

\* get_messages(limit) is called and polled: messages.read().await asks for the read lock.
GetMessagesCall(r, limit) ==
  /\ rpc[r] = "idle"
  /\ lock' = Acquire(lock, r)
  /\ rpc' = [rpc EXCEPT ![r] = "waiting"]
  /\ rop' = [rop EXCEPT ![r] = "get"]
  /\ rlimit' = [rlimit EXCEPT ![r] = limit]
  /\ atCall' = [atCall EXCEPT ![r] = messages]
  /\ views' = [views EXCEPT ![r] = {messages}]
  /\ UNCHANGED <<fanHist, pipeVars, funcVars, mainVars>>
  /\ UNCHANGED <<impl, max_size, messages, now, nextRec, adderVars, rtake, rcursor, rresult, snap, chanVars, subVars>>

\* get_stats() is called and polled.
GetStatsCall(r) ==
  /\ rpc[r] = "idle"
  /\ lock' = Acquire(lock, r)
  /\ rpc' = [rpc EXCEPT ![r] = "waiting"]
  /\ rop' = [rop EXCEPT ![r] = "stats"]
  /\ rlimit' = [rlimit EXCEPT ![r] = None]
  /\ atCall' = [atCall EXCEPT ![r] = messages]
  /\ views' = [views EXCEPT ![r] = {messages}]
  /\ UNCHANGED <<fanHist, pipeVars, funcVars, mainVars>>
  /\ UNCHANGED <<impl, max_size, messages, now, nextRec, adderVars, rtake, rcursor, rresult, snap, chanVars, subVars>>

\* With the read guard: the limit is fixed and the reverse iterator starts at the back.
GetMessagesGuard(r) ==
  /\ rpc[r] = "waiting"
  /\ rop[r] = "get"
  /\ HoldsRead(r)
  /\ rtake' = [rtake EXCEPT ![r] = unwrap_or(rlimit[r], Len(messages))]
  /\ rcursor' = [rcursor EXCEPT ![r] = Len(messages)]
  /\ rresult' = [rresult EXCEPT ![r] = <<>>]
  /\ snap' = [snap EXCEPT ![r] = messages]
  /\ rpc' = [rpc EXCEPT ![r] = "iter"]
  /\ UNCHANGED <<fanHist, pipeVars, funcVars, mainVars>>
  /\ UNCHANGED <<storeVars, adderVars, rop, rlimit, atCall, views, chanVars, subVars>>

\* Mutant of GetMessagesNext: the iterator runs from the front (.rev() forgotten).
GetMessagesNextFromFront(r) ==
  /\ rpc[r] = "iter"
  /\ Len(rresult[r]) < rtake[r]
  /\ rcursor[r] >= 1
  /\ rresult' = [rresult EXCEPT ![r] =
                   Append(@, to_response(EntryAt(messages, Len(messages) + 1 - rcursor[r])))]
  /\ rcursor' = [rcursor EXCEPT ![r] = @ - 1]
  /\ UNCHANGED <<fanHist, pipeVars, funcVars, mainVars>>
  /\ UNCHANGED <<storeVars, adderVars, rpc, rop, rlimit, rtake, atCall, snap, views, chanVars, subVars>>

\* .iter().rev().take(limit).map(to_response): one element.
GetMessagesNext(r) ==
  /\ rpc[r] = "iter"
  /\ Len(rresult[r]) < rtake[r]
  /\ rcursor[r] >= 1
  /\ rresult' = [rresult EXCEPT ![r] = Append(@, to_response(EntryAt(messages, rcursor[r])))]
  /\ rcursor' = [rcursor EXCEPT ![r] = @ - 1]
  /\ UNCHANGED <<fanHist, pipeVars, funcVars, mainVars>>
  /\ UNCHANGED <<storeVars, adderVars, rpc, rop, rlimit, rtake, atCall, snap, views, chanVars, subVars>>

\* .collect(): the iterator is exhausted, the vector is returned, the read guard dropped.
GetMessagesCollect(r) ==
  /\ rpc[r] = "iter"
  /\ (Len(rresult[r]) >= rtake[r] \/ rcursor[r] < 1)
  /\ lock' = Release(lock, r)
  /\ rpc' = [rpc EXCEPT ![r] = "done"]
  /\ UNCHANGED <<fanHist, pipeVars, funcVars, mainVars>>
  /\ UNCHANGED <<impl, max_size, messages, now, nextRec, adderVars,
                 rop, rlimit, rtake, rcursor, rresult, atCall, snap, views, chanVars, subVars>>

\* get_stats with the read guard: the JSON value is built and the guard dropped.
GetStatsRead(r) ==
  /\ rpc[r] = "waiting"
  /\ rop[r] = "stats"
  /\ HoldsRead(r)
  /\ rresult' = [rresult EXCEPT ![r] = StatsValue(Len(messages))]
  /\ snap' = [snap EXCEPT ![r] = messages]
  /\ lock' = Release(lock, r)
  /\ rpc' = [rpc EXCEPT ![r] = "done"]
  /\ UNCHANGED <<fanHist, pipeVars, funcVars, mainVars>>
  /\ UNCHANGED <<impl, max_size, messages, now, nextRec, adderVars,
                 rop, rlimit, rtake, rcursor, atCall, views, chanVars, subVars>>

\* The caller (logs_handler, stats_handler) takes the value and replies.
ReadReturn(r) ==
  /\ rpc[r] = "done"
  /\ rpc' = [rpc EXCEPT ![r] = "idle"]
  /\ rop' = [rop EXCEPT ![r] = "get"]
  /\ rlimit' = [rlimit EXCEPT ![r] = None]
  /\ rtake' = [rtake EXCEPT ![r] = 0]
  /\ rcursor' = [rcursor EXCEPT ![r] = 0]
  /\ rresult' = [rresult EXCEPT ![r] = <<>>]
  /\ atCall' = [atCall EXCEPT ![r] = <<>>]
  /\ snap' = [snap EXCEPT ![r] = <<>>]
  /\ views' = [views EXCEPT ![r] = {}]
  /\ UNCHANGED <<fanHist, pipeVars, funcVars, mainVars>>
  /\ UNCHANGED <<storeVars, adderVars, chanVars, subVars>>

\* ------------------------------------------------------------ stream_handler
\* store.subscribe(): a new receiver on the broadcaster.
Subscribe(s) ==
  /\ spc[s] = "idle"
  /\ rxCnt' = rxCnt + 1
  /\ snext' = [snext EXCEPT ![s] = SubscribeNext]
  /\ spc' = [spc EXCEPT ![s] = "subscribed"]
  /\ subPub' = [subPub EXCEPT ![s] = Len(published)]
  /\ delivered' = [delivered EXCEPT ![s] = <<>>]
  /\ lagCount' = [lagCount EXCEPT ![s] = 0]
  /\ skipped' = [skipped EXCEPT ![s] = 0]
  /\ lagDeliv' = [lagDeliv EXCEPT ![s] = 0]
  /\ UNCHANGED <<dropPub, pipeVars, funcVars, mainVars>>
  /\ UNCHANGED <<storeVars, adderVars, readerVars, chanCap, buffer, tailPos, published>>

\* Mutant of StreamAfter: the stream ends at a lag signal.
StreamAfterEndsOnLag(kind) == IF kind = "lagged" THEN "ended" ELSE "subscribed"

\* The stream after an item of BroadcastStream: filter_map maps Ok(message) to an event and
\* Err(_) to None, and in both cases polls on; nothing here ends the stream.
StreamAfter(kind) == "subscribed"

\* Mutant of StreamNext: the receivers share one cursor, so a lag signal repositions all.
StreamNextSharedCursor(s) ==
  /\ spc[s] = "subscribed"
  /\ LET r == RecvOutcome(snext[s]) IN
       /\ r.kind # "empty"
       /\ snext' = IF r.kind = "lagged" THEN [t \in Subscribers |-> r.next]
                   ELSE [snext EXCEPT ![s] = r.next]
       /\ delivered' = [delivered EXCEPT ![s] = IF r.kind = "ok" THEN Append(@, r.val) ELSE @]
       /\ lagCount' = [lagCount EXCEPT ![s] = IF r.kind = "lagged" THEN @ + 1 ELSE @]
       /\ skipped' = [skipped EXCEPT ![s] = @ + r.missed]
       /\ lagDeliv' = [lagDeliv EXCEPT ![s] = IF r.kind = "lagged" THEN Len(delivered[s]) ELSE @]
       /\ spc' = [spc EXCEPT ![s] = StreamAfter(r.kind)]
  /\ UNCHANGED <<dropPub, pipeVars, funcVars, mainVars>>
  /\ UNCHANGED <<storeVars, adderVars, readerVars, chanVars, subPub>>

\* BroadcastStream polls rx.recv(): a message becomes an SSE event, a lag signal is
\* filtered out (Err(_) => None) and the stream goes on; an empty channel waits.
StreamNext(s) ==
  /\ spc[s] = "subscribed"
  /\ LET r == RecvOutcome(snext[s]) IN
       /\ r.kind # "empty"
       /\ snext' = [snext EXCEPT ![s] = r.next]
       /\ delivered' = [delivered EXCEPT ![s] = IF r.kind = "ok" THEN Append(@, r.val) ELSE @]
       /\ lagCount' = [lagCount EXCEPT ![s] = IF r.kind = "lagged" THEN @ + 1 ELSE @]
       /\ skipped' = [skipped EXCEPT ![s] = @ + r.missed]
       /\ lagDeliv' = [lagDeliv EXCEPT ![s] = IF r.kind = "lagged" THEN Len(delivered[s]) ELSE @]
       /\ spc' = [spc EXCEPT ![s] = StreamAfter(r.kind)]
  /\ UNCHANGED <<dropPub, pipeVars, funcVars, mainVars>>
  /\ UNCHANGED <<storeVars, adderVars, readerVars, chanVars, subPub>>

\* Mutant of StreamDrop: dropping one receiver closes the channel for all.
StreamDropClosesChannel(s) ==
  /\ spc[s] = "subscribed"
  /\ rxCnt' = 0
  /\ spc' = [spc EXCEPT ![s] = "idle"]
  /\ snext' = [snext EXCEPT ![s] = 0]
  /\ subPub' = [subPub EXCEPT ![s] = 0]
  /\ delivered' = [delivered EXCEPT ![s] = <<>>]
  /\ lagCount' = [lagCount EXCEPT ![s] = 0]
  /\ skipped' = [skipped EXCEPT ![s] = 0]
  /\ lagDeliv' = [lagDeliv EXCEPT ![s] = 0]
  /\ dropPub' = Len(published)
  /\ UNCHANGED <<pipeVars, funcVars, mainVars>>
  /\ UNCHANGED <<storeVars, adderVars, readerVars, chanCap, buffer, tailPos, published>>

\* The client goes away: the stream and its receiver are dropped.
StreamDrop(s) ==
  /\ spc[s] = "subscribed"
  /\ rxCnt' = rxCnt - 1
  /\ spc' = [spc EXCEPT ![s] = "idle"]
  /\ snext' = [snext EXCEPT ![s] = 0]
  /\ subPub' = [subPub EXCEPT ![s] = 0]
  /\ delivered' = [delivered EXCEPT ![s] = <<>>]
  /\ lagCount' = [lagCount EXCEPT ![s] = 0]
  /\ skipped' = [skipped EXCEPT ![s] = 0]
  /\ lagDeliv' = [lagDeliv EXCEPT ![s] = 0]
  /\ dropPub' = Len(published)
  /\ UNCHANGED <<pipeVars, funcVars, mainVars>>
  /\ UNCHANGED <<storeVars, adderVars, readerVars, chanCap, buffer, tailPos, published>>

\* ------------------------------------------------------------ the ingestion loop
\* Texts. RawText(n) is the JSON text of record n; BadText(n) is a text serde_json does not
\* accept as a GelfMessage (and what the bytes of a compressed datagram read as).
BadText(n) == <<0 - n>>

\* The datagrams a sender can put on the wire, by what is in them: plain, gzip or zlib
\* bytes; a text that is the JSON of a record or not; or a compressed stream that is
\* corrupt and so has no text.
Shapes ==
  {[compression |-> c, stream |-> "ok", json |-> j] :
     c \in {"none", "gzip", "zlib"}, j \in {"ok", "bad"}}
  \cup {[compression |-> c, stream |-> "corrupt", json |-> "bad"] : c \in {"gzip", "zlib"}}

\* The n-th datagram received, of the given shape.
Datagram(shape, n) ==
  LET text == IF shape.json = "ok" THEN RawText(n) ELSE BadText(n) IN
    [head |-> IF shape.compression = "gzip" THEN <<31, 139>>
              ELSE IF shape.compression = "zlib" THEN <<120, 156>>
              ELSE <<123, 34>>,
     len |-> 3,
     inflated |-> IF shape.compression # "none" /\ shape.stream = "ok"
                  THEN [ok |-> TRUE, text |-> text]
                  ELSE [ok |-> FALSE, text |-> NoText],
     text |-> IF shape.compression = "none" THEN text ELSE BadText(n)]

\* GzipDecompressor::can_handle; is_gzipped in handle_udp_message.
GzipCanHandle(data) == data.len > 2 /\ data.head[1] = 31 /\ data.head[2] = 139

\* A zlib detector that looks at the first byte only.
ZlibCanHandleAnyFlag(data) == data.len > 2 /\ data.head[1] = 120

\* ZlibDecompressor::can_handle; is_zlib in handle_udp_message.
ZlibCanHandle(data) ==
  data.len > 2 /\ data.head[1] = 120 /\ data.head[2] \in {156, 218, 1}

\* decoder.read_to_end(&mut decompressed): Ok hands the vector over; Err(e) is returned
\* and the vector, with whatever was decoded before the error, is dropped.
read_to_end(run) ==
  IF run.ok THEN [ok |-> TRUE, text |-> run.text] ELSE [ok |-> FALSE, text |-> NoText]

\* A decompressor that returns what it decoded before the error as if it were whole.
GzipDecompressKeepsPartial(data) == [ok |-> TRUE, text |-> data.inflated.text]

\* GzipDecompressor::decompress.
GzipDecompress(data) == read_to_end(data.inflated)

\* ZlibDecompressor::decompress.
ZlibDecompress(data) == read_to_end(data.inflated)

\* The loop over self.decompressors in CompressionManager::decompress: the one whose
\* can_handle is the first to hold, as the debug line names it.
compression_type(data) ==
  IF GzipCanHandle(data) THEN "GZIP"
  ELSE IF ZlibCanHandle(data) THEN "ZLIB"
  ELSE "none"

\* CompressionManager::decompress followed by String::from_utf8_lossy: the first
\* decompressor that can handle the data decides; otherwise the data itself is the text.
decompress(data) ==
  IF GzipCanHandle(data) THEN GzipDecompress(data)
  ELSE IF ZlibCanHandle(data) THEN ZlibDecompress(data)
  ELSE [ok |-> TRUE, text |-> data.text]

\* JsonGelfParser::parse: serde_json::from_str::<GelfMessage>.
parse(text) ==
  IF text # NoText /\ text[1] > 0 THEN [ok |-> TRUE, gelf_msg |-> text[1]]
  ELSE [ok |-> FALSE, gelf_msg |-> 0]

\* What recv_from returned.
RecvOk(data) == [ok |-> TRUE, data |-> data]
RecvErr == [ok |-> FALSE, data |-> NoDatagram]

\* socket.recv_from(&mut buf).await returns Ok((len, addr)).
RunRecvOk(shape) ==
  /\ ppc = "recv"
  /\ sock = "open"
  /\ Len(events) < MaxDatagrams
  /\ raw_data' = Datagram(shape, Len(events) + 1)
  /\ events' = Append(events, RecvOk(raw_data'))
  /\ ppc' = "decompress"
  /\ UNCHANGED <<sock, message_str, fanHist, funcVars, mainVars>>
  /\ UNCHANGED <<storeVars, adderVars, readerVars, chanVars, subVars>>

\* socket.recv_from(&mut buf).await returns Err(e): on an open socket now and then, on a
\* failed socket every time. events records the first MaxDatagrams results only.
RunRecvErr ==
  /\ ppc = "recv"
  /\ (sock = "failed" \/ Len(events) < MaxDatagrams)
  /\ events' = IF Len(events) < MaxDatagrams THEN Append(events, RecvErr) ELSE events
  /\ ppc' = "error"
  /\ UNCHANGED <<sock, raw_data, message_str, fanHist, funcVars, mainVars>>
  /\ UNCHANGED <<storeVars, adderVars, readerVars, chanVars, subVars>>

\* Mutant of RunRecvErrLogged: after the error is logged the loop is left.
RunRecvErrLoggedBreaks ==
  /\ ppc = "error"
  /\ ppc' = "exited"
  /\ UNCHANGED <<sock, raw_data, message_str, events, fanHist, funcVars, mainVars>>
  /\ UNCHANGED <<storeVars, adderVars, readerVars, chanVars, subVars>>

\* The Err(e) arm: the error is logged and the loop goes round.
RunRecvErrLogged ==
  /\ ppc = "error"
  /\ ppc' = "recv"
  /\ UNCHANGED <<sock, raw_data, message_str, events, fanHist, funcVars, mainVars>>
  /\ UNCHANGED <<storeVars, adderVars, readerVars, chanVars, subVars>>

\* The transport fails for good: from now on every receive returns an error.
SocketFail ==
  /\ sock = "open"
  /\ sock' = "failed"
  /\ UNCHANGED <<ppc, raw_data, message_str, events, fanHist, funcVars, mainVars>>
  /\ UNCHANGED <<storeVars, adderVars, readerVars, chanVars, subVars>>

\* match self.compression_manager.decompress(raw_data): Ok gives message_str, Err is
\* logged and the loop continues with the next receive.
RunDecompress ==
  /\ ppc = "decompress"
  /\ LET r == decompress(raw_data) IN
       IF r.ok
       THEN /\ message_str' = r.text
            /\ ppc' = "parse"
            /\ UNCHANGED raw_data
       ELSE /\ message_str' = NoText
            /\ raw_data' = NoDatagram
            /\ ppc' = "recv"
  /\ UNCHANGED <<sock, events, fanHist, funcVars, mainVars>>
  /\ UNCHANGED <<storeVars, adderVars, readerVars, chanVars, subVars>>

\* The call store.add_message(gelf_msg, message_str) of the loop, on either store.
CallAddMessage(a, gelf_msg, text) ==
  /\ nextRec' = nextRec + 1
  /\ apc' = [apc EXCEPT ![a] = "created"]
  /\ IF impl = "InMemoryMessageStore"
     THEN LET stored_message == StoredMessageNew(gelf_msg, text) IN
            /\ astored' = [astored EXCEPT ![a] = stored_message]
            /\ aresponse' = [aresponse EXCEPT ![a] = to_response(stored_message)]
     ELSE /\ astored' = [astored EXCEPT ![a] =
                          [gelf_message |-> gelf_msg, received_at |-> 0, raw_message |-> text]]
          /\ UNCHANGED aresponse

\* Mutant of RunParse: a text that does not parse is stored as it is, with no record.
RunParseKeepsRaw ==
  /\ ppc = "parse"
  /\ LET p == parse(message_str) IN
       /\ CallAddMessage(UdpTask, p.gelf_msg, message_str)
       /\ ppc' = "add"
       /\ UNCHANGED <<raw_data, message_str>>
  /\ UNCHANGED <<sock, events, fanHist, funcVars, mainVars>>
  /\ UNCHANGED <<impl, max_size, messages, lock, now, appended, readerVars, chanVars, subVars>>

\* Mutant of RunParse: add_message is started and not awaited.
RunParseNoAwait ==
  /\ ppc = "parse"
  /\ LET p == parse(message_str) IN
       IF p.ok
       THEN /\ CallAddMessage(UdpTask, p.gelf_msg, message_str)
            /\ ppc' = "recv"
            /\ UNCHANGED <<raw_data, message_str>>
       ELSE /\ message_str' = NoText
            /\ raw_data' = NoDatagram
            /\ ppc' = "recv"
            /\ UNCHANGED <<nextRec, apc, astored, aresponse>>
  /\ UNCHANGED <<sock, events, fanHist, funcVars, mainVars>>
  /\ UNCHANGED <<impl, max_size, messages, lock, now, appended, readerVars, chanVars, subVars>>

\* Mutant of RunParse: a text that does not parse ends the loop.
RunParseErrExits ==
  /\ ppc = "parse"
  /\ LET p == parse(message_str) IN
       IF p.ok
       THEN /\ CallAddMessage(UdpTask, p.gelf_msg, message_str)
            /\ ppc' = "add"
            /\ UNCHANGED <<raw_data, message_str>>
       ELSE /\ message_str' = NoText
            /\ raw_data' = NoDatagram
            /\ ppc' = "exited"
            /\ UNCHANGED <<nextRec, apc, astored, aresponse>>
  /\ UNCHANGED <<sock, events, fanHist, funcVars, mainVars>>
  /\ UNCHANGED <<impl, max_size, messages, lock, now, appended, readerVars, chanVars, subVars>>

\* match self.parser.parse(&message_str): Ok calls add_message and awaits it, Err is
\* logged and the loop goes round.
RunParse ==
  /\ ppc = "parse"
  /\ LET p == parse(message_str) IN
       IF p.ok
       THEN /\ CallAddMessage(UdpTask, p.gelf_msg, message_str)
            /\ ppc' = "add"
            /\ UNCHANGED <<raw_data, message_str>>
       ELSE /\ message_str' = NoText
            /\ raw_data' = NoDatagram
            /\ ppc' = "recv"
            /\ UNCHANGED <<nextRec, apc, astored, aresponse>>
  /\ UNCHANGED <<sock, events, fanHist, funcVars, mainVars>>
  /\ UNCHANGED <<impl, max_size, messages, lock, now, appended, readerVars, chanVars, subVars>>

\* add_message(..).await has returned: the loop goes round.
RunAddDone ==
  /\ ppc = "add"
  /\ apc[UdpTask] = "idle"
  /\ ppc' = "recv"
  /\ message_str' = NoText
  /\ raw_data' = NoDatagram
  /\ UNCHANGED <<sock, events, fanHist, funcVars, mainVars>>
  /\ UNCHANGED <<storeVars, adderVars, readerVars, chanVars, subVars>>

\* ------------------------------------------------------------ cancellation
\* Mutant of DropRequest: the dropped future keeps what it asked for.
DropRequestLeaks(l, t) == l

\* A future that asked for the lock is dropped: a queued request leaves the queue and a
\* granted one gives the lock back, and the queue moves on.
DropRequest(l, t) ==
  Release([l EXCEPT !.queue = SelectSeq(@, LAMBDA x : x # t)], t)

\* Mutant of AtSuspensionPoint: the task can be dropped between any two of its steps.
AtAnyPoint == ppc # "cancelled"

\* Where the ingestion task can be dropped, its .await points: recv_from(&mut buf).await
\* and, inside add_message(..).await, messages.write().await.
AtSuspensionPoint ==
  \/ ppc = "recv"
  \/ ppc = "add" /\ apc[UdpTask] = "waiting"

\* The ingestion task is dropped (cancelled) where it is suspended: its locals go, and
\* its request for the lock with them.
CancelIngestion ==
  /\ AtSuspensionPoint
  /\ ppc' = "cancelled"
  /\ lock' = DropRequest(lock, UdpTask)
  /\ apc' = [apc EXCEPT ![UdpTask] = "idle"]
  /\ astored' = [astored EXCEPT ![UdpTask] = NoEntry]
  /\ aresponse' = [aresponse EXCEPT ![UdpTask] = NoResponse]
  /\ raw_data' = NoDatagram
  /\ message_str' = NoText
  /\ UNCHANGED <<sock, events, fanHist, funcVars, mainVars>>
  /\ UNCHANGED <<impl, max_size, messages, now, nextRec, appended, readerVars, chanVars, subVars>>

\* ------------------------------------------------------------ main
\* The ingestion task ends. handle_udp_message has no return and no break, so the task
\* ends by a panic: here the unwrap of the clock reading in LogStore::add_message, which
\* is taken with the write guard; the unwinding drops the guard and the task's locals.
UdpTaskPanics ==
  /\ impl = "LogStore"
  /\ ppc = "add"
  /\ apc[UdpTask] = "waiting"
  /\ HoldsWrite(UdpTask)
  /\ ppc' = "terminated"
  /\ lock' = DropRequest(lock, UdpTask)
  /\ apc' = [apc EXCEPT ![UdpTask] = "idle"]
  /\ astored' = [astored EXCEPT ![UdpTask] = NoEntry]
  /\ aresponse' = [aresponse EXCEPT ![UdpTask] = NoResponse]
  /\ raw_data' = NoDatagram
  /\ message_str' = NoText
  /\ UNCHANGED <<sock, events, fanHist, funcVars, mainVars>>
  /\ UNCHANGED <<impl, max_size, messages, now, nextRec, appended, readerVars, chanVars, subVars>>

\* The HTTP task ends: warp::serve(routes).run(http_addr) panics when it cannot bind, and
\* the task is over when the server future is.
HttpTaskEnds ==
  /\ http = "serving"
  /\ http' = "terminated"
  /\ UNCHANGED <<mpc, fanHist, pipeVars, funcVars>>
  /\ UNCHANGED <<storeVars, adderVars, readerVars, chanVars, subVars>>

TaskTerminated == ppc = "terminated" \/ http = "terminated"

\* Mutant of MainSelect: main joins both tasks.
MainJoinBoth ==
  /\ mpc = "select"
  /\ ppc = "terminated" /\ http = "terminated"
  /\ mpc' = "returned"
  /\ UNCHANGED <<http, fanHist, pipeVars, funcVars>>
  /\ UNCHANGED <<storeVars, adderVars, readerVars, chanVars, subVars>>

\* tokio::select! over the two join handles: the arm of whichever task has ended logs the
\* error, and main returns Ok(()).
MainSelect ==
  /\ mpc = "select"
  /\ TaskTerminated
  /\ mpc' = "returned"
  /\ UNCHANGED <<http, fanHist, pipeVars, funcVars>>
  /\ UNCHANGED <<storeVars, adderVars, readerVars, chanVars, subVars>>

\* ------------------------------------------------------------ the clock
\* SystemTime::now() has moved on: the wall clock, taken to be monotonic.
Tick ==
  /\ now < MaxTicks
  /\ now' = now + 1
  /\ UNCHANGED <<impl, max_size, messages, lock, nextRec>>
  /\ UNCHANGED <<adderVars, readerVars, chanVars, subVars, fanHist, pipeVars, funcVars,
                 mainVars>>

\* ------------------------------------------------------------ specifications
\* The state after InMemoryMessageStore::with_broadcaster(max_size,
\* DefaultBroadcaster::new(capacity)), or after LogStore::new(max_size) where capacity is
\* its channel's, for max_size in capacities and capacity in channels.
InitProgram(impls, capacities, channels) ==
  /\ impl \in impls
  /\ max_size \in capacities
  /\ messages = <<>>
  /\ lock = [writer |-> NoTask, readers |-> {}, queue |-> <<>>]
  /\ now = 0
  /\ nextRec = 0
  /\ apc = [a \in Adders |-> "idle"]
  /\ astored = [a \in Adders |-> NoEntry]
  /\ aresponse = [a \in Adders |-> NoResponse]
  /\ rpc = [r \in Readers |-> "idle"]
  /\ rop = [r \in Readers |-> "get"]
  /\ rlimit = [r \in Readers |-> None]
  /\ rtake = [r \in Readers |-> 0]
  /\ rcursor = [r \in Readers |-> 0]
  /\ rresult = [r \in Readers |-> <<>>]
  /\ appended = <<>>
  /\ atCall = [r \in Readers |-> <<>>]
  /\ snap = [r \in Readers |-> <<>>]
  /\ views = [r \in Readers |-> {}]
  /\ chanCap \in channels
  /\ buffer = NewBuffer(chanCap)
  /\ tailPos = 0
  /\ rxCnt = 0
  /\ published = <<>>
  /\ spc = [s \in Subscribers |-> "idle"]
  /\ snext = [s \in Subscribers |-> 0]
  /\ subPub = [s \in Subscribers |-> 0]
  /\ delivered = [s \in Subscribers |-> <<>>]
  /\ lagCount = [s \in Subscribers |-> 0]
  /\ skipped = [s \in Subscribers |-> 0]
  /\ lagDeliv = [s \in Subscribers |-> 0]
  /\ dropPub = -1
  /\ ppc = "recv"
  /\ sock = "open"
  /\ raw_data = NoDatagram
  /\ message_str = NoText
  /\ events = <<>>
  /\ mpc = "select"
  /\ http = "serving"

\* The program as constructed, no pure function being applied on its own.
InitWith(impls, capacities, channels) ==
  /\ InitProgram(impls, capacities, channels)
  /\ input = None
  /\ output = None

\* Either store under concurrent writers and the reader r1, nobody subscribed.
Init == InitWith({"InMemoryMessageStore", "LogStore"}, 0..MaxCapacity, {1})

Next ==
  \/ \E a \in Adders : AddCall(a, MaxAppends)
  \/ \E a \in Adders : AddWrite(a)
  \/ \E a \in Adders : AddPushBack(a)
  \/ \E a \in Adders : AddPopFront(a)
  \/ \E a \in Adders : AddUnlock(a)
  \/ \E a \in Adders : AddBroadcast(a)
  \/ \E a \in Adders : LogStoreAddCall(a, MaxAppends)
  \/ \E a \in Adders : LogStorePushBack(a)
  \/ \E a \in Adders : LogStoreBroadcast(a)
  \/ \E a \in Adders : LogStoreUnlock(a)
  \/ \E r \in {"r1"}, limit \in Limits : GetMessagesCall(r, limit)
  \/ \E r \in {"r1"} : GetStatsCall(r)
  \/ \E r \in {"r1"} : GetMessagesGuard(r)
  \/ \E r \in {"r1"} : GetMessagesNext(r)
  \/ \E r \in {"r1"} : GetMessagesCollect(r)
  \/ \E r \in {"r1"} : GetStatsRead(r)
  \/ \E r \in {"r1"} : ReadReturn(r)

Spec == Init /\ [][Next]_vars

\* The fan-out: one ingestion task publishing to subscribers that come, receive and go,
\* on a store of capacity 1 whose broadcaster has a configured capacity.
InitFanout == InitWith({"InMemoryMessageStore"}, {1}, 1..MaxChannelCapacity)

NextFanout ==
  \/ AddCall("a1", MaxPublishes)
  \/ AddWrite("a1")
  \/ AddPushBack("a1")
  \/ AddPopFront("a1")
  \/ AddUnlock("a1")
  \/ AddBroadcast("a1")
  \/ \E s \in Subscribers : Subscribe(s)
  \/ \E s \in Subscribers : StreamNext(s)
  \/ \E s \in Subscribers : StreamDrop(s)

SpecFanout == InitFanout /\ [][NextFanout]_vars

\* The runtime keeps polling a spawned task whose future can make progress: each step of
\* add_message that stays possible is eventually taken.
AdderFair(a) ==
  /\ WF_vars(AddWrite(a))
  /\ WF_vars(AddPushBack(a))
  /\ WF_vars(AddPopFront(a))
  /\ WF_vars(AddUnlock(a))
  /\ WF_vars(AddBroadcast(a))

\* The fan-out with the ingestion task scheduled fairly; the subscribers (HTTP clients)
\* owe nothing: they may never subscribe, never receive, never leave.
SpecFanoutLive == InitFanout /\ [][NextFanout]_vars /\ AdderFair("a1")

\* The default store, InMemoryMessageStore::new(1), with one subscriber that is there
\* before the first record arrives and receives whenever it likes.
InitDefault == InitWith({"InMemoryMessageStore"}, {1}, {DefaultChannelCapacity})

NextDefault ==
  \/ AddCall("a1", MaxDefaultAppends)
  \/ AddWrite("a1")
  \/ AddPushBack("a1")
  \/ AddPopFront("a1")
  \/ AddUnlock("a1")
  \/ AddBroadcast("a1")
  \/ (nextRec = 0 /\ Subscribe("s1"))
  \/ StreamNext("s1")

SpecDefault == InitDefault /\ [][NextDefault]_vars

\* The ingestion loop (UdpMessageHandler::run on an InMemoryMessageStore,
\* handle_udp_message on the LogStore) fed datagrams and receive errors, with one SSE
\* subscriber.
InitIngest ==
  InitWith({"InMemoryMessageStore", "LogStore"}, {MaxCapacity}, {MaxChannelCapacity})

NextIngest ==
  \/ \E shape \in Shapes : RunRecvOk(shape)
  \/ RunRecvErr
  \/ RunRecvErrLogged
  \/ SocketFail
  \/ RunDecompress
  \/ RunParse
  \/ RunAddDone
  \/ AddWrite(UdpTask)
  \/ AddPushBack(UdpTask)
  \/ AddPopFront(UdpTask)
  \/ AddUnlock(UdpTask)
  \/ AddBroadcast(UdpTask)
  \/ LogStorePushBack(UdpTask)
  \/ LogStoreBroadcast(UdpTask)
  \/ LogStoreUnlock(UdpTask)
  \/ Subscribe("s1")
  \/ StreamNext("s1")

SpecIngest == InitIngest /\ [][NextIngest]_vars

\* The spawned ingestion task is polled whenever it can go on: the steps after a receive
\* are taken, and so is a receive on a failed socket, which returns its error at once. A
\* receive on an open socket waits for the network, which owes nothing.
SpecIngestLive ==
  /\ InitIngest /\ [][NextIngest]_vars
  /\ WF_vars(sock = "failed" /\ RunRecvErr)
  /\ WF_vars(RunRecvErrLogged)
  /\ WF_vars(RunDecompress)
  /\ WF_vars(RunParse)
  /\ WF_vars(RunAddDone)
  /\ AdderFair(UdpTask)
  /\ WF_vars(LogStorePushBack(UdpTask))
  /\ WF_vars(LogStoreBroadcast(UdpTask))
  /\ WF_vars(LogStoreUnlock(UdpTask))

\* ------------------------------------------------------------ the store's lock
\* Either store under two concurrent writers and two concurrent readers.
InitLock == InitWith({"InMemoryMessageStore", "LogStore"}, {1}, {1})

NextLock ==
  \/ \E a \in Adders : AddCall(a, MaxLockAppends)
  \/ \E a \in Adders : AddWrite(a)
  \/ \E a \in Adders : AddPushBack(a)
  \/ \E a \in Adders : AddPopFront(a)
  \/ \E a \in Adders : AddUnlock(a)
  \/ \E a \in Adders : AddBroadcast(a)
  \/ \E a \in Adders : LogStoreAddCall(a, MaxLockAppends)
  \/ \E a \in Adders : LogStorePushBack(a)
  \/ \E a \in Adders : LogStoreBroadcast(a)
  \/ \E a \in Adders : LogStoreUnlock(a)
  \/ \E r \in Readers : GetMessagesCall(r, None)
  \/ \E r \in Readers : GetStatsCall(r)
  \/ \E r \in Readers : GetMessagesGuard(r)
  \/ \E r \in Readers : GetMessagesNext(r)
  \/ \E r \in Readers : GetMessagesCollect(r)
  \/ \E r \in Readers : GetStatsRead(r)
  \/ \E r \in Readers : ReadReturn(r)

SpecLock == InitLock /\ [][NextLock]_vars

\* A reader that has been polled runs to its return.
ReaderFair(r) ==
  /\ WF_vars(GetMessagesGuard(r))
  /\ WF_vars(GetMessagesNext(r))
  /\ WF_vars(GetMessagesCollect(r))
  /\ WF_vars(GetStatsRead(r))

\* The lock with every task that has called scheduled fairly: a task the lock is granted
\* to is woken and runs on. Callers owe nothing: add_message, get_messages and get_stats
\* may be called or not, and the readers may call without end.
SpecLockLive ==
  /\ InitLock /\ [][NextLock]_vars
  /\ \A a \in Adders :
       /\ AdderFair(a)
       /\ WF_vars(LogStorePushBack(a))
       /\ WF_vars(LogStoreBroadcast(a))
       /\ WF_vars(LogStoreUnlock(a))
  /\ \A r \in Readers : ReaderFair(r)

\* ------------------------------------------------------------ shutdown
\* Either store fed by the ingestion loop, with a reader and a subscriber; the loop can be
\* cancelled and the subscriber can go.
InitShutdown == InitWith({"InMemoryMessageStore", "LogStore"}, {1}, {1})

ShutdownShapes ==
  {[compression |-> "none", stream |-> "ok", json |-> "ok"],
   [compression |-> "gzip", stream |-> "corrupt", json |-> "bad"]}

NextShutdown ==
  \/ \E shape \in ShutdownShapes : Len(events) < MaxShutdownDatagrams /\ RunRecvOk(shape)
  \/ RunDecompress
  \/ RunParse
  \/ RunAddDone
  \/ AddWrite(UdpTask)
  \/ AddPushBack(UdpTask)
  \/ AddPopFront(UdpTask)
  \/ AddUnlock(UdpTask)
  \/ AddBroadcast(UdpTask)
  \/ LogStorePushBack(UdpTask)
  \/ LogStoreBroadcast(UdpTask)
  \/ LogStoreUnlock(UdpTask)
  \/ CancelIngestion
  \/ GetMessagesCall("r1", None)
  \/ GetStatsCall("r1")
  \/ GetMessagesGuard("r1")
  \/ GetMessagesNext("r1")
  \/ GetMessagesCollect("r1")
  \/ GetStatsRead("r1")
  \/ ReadReturn("r1")
  \/ Subscribe("s1")
  \/ StreamNext("s1")
  \/ StreamDrop("s1")

SpecShutdown == InitShutdown /\ [][NextShutdown]_vars

\* ------------------------------------------------------------ the supervisor
\* main: the LogStore fed by the ingestion task, the HTTP task serving /stats, and main at
\* its select. Once main has returned the runtime goes, and drops the ingestion task where
\* it is suspended.
InitMain == InitWith({"LogStore"}, {1}, {1})

NextMain ==
  \/ \E shape \in ShutdownShapes : Len(events) < MaxShutdownDatagrams /\ RunRecvOk(shape)
  \/ RunDecompress
  \/ RunParse
  \/ RunAddDone
  \/ AddWrite(UdpTask)
  \/ LogStorePushBack(UdpTask)
  \/ LogStoreBroadcast(UdpTask)
  \/ LogStoreUnlock(UdpTask)
  \/ UdpTaskPanics
  \/ HttpTaskEnds
  \/ MainSelect
  \/ mpc = "returned" /\ CancelIngestion
  \/ http = "serving" /\ GetStatsCall("r1")
  \/ GetStatsRead("r1")
  \/ ReadReturn("r1")

\* main is woken when a join handle completes, and its select then takes that arm; the
\* tasks themselves owe nothing.
SpecMain == InitMain /\ [][NextMain]_vars /\ WF_vars(MainSelect)

\* ------------------------------------------------------------ a client of both endpoints
\* Either store fed by one task, and an HTTP client that opens /stream and, once it is
\* subscribed, asks /logs for everything, as often as it likes.
InitClient == InitWith({"InMemoryMessageStore", "LogStore"}, {1}, {1})

NextClient ==
  \/ AddCall(UdpTask, MaxAppends)
  \/ AddWrite(UdpTask)
  \/ AddPushBack(UdpTask)
  \/ AddPopFront(UdpTask)
  \/ AddUnlock(UdpTask)
  \/ AddBroadcast(UdpTask)
  \/ LogStoreAddCall(UdpTask, MaxAppends)
  \/ LogStorePushBack(UdpTask)
  \/ LogStoreBroadcast(UdpTask)
  \/ LogStoreUnlock(UdpTask)
  \/ Subscribe("s1")
  \/ StreamNext("s1")
  \/ spc["s1"] = "subscribed" /\ GetMessagesCall("r1", None)
  \/ GetMessagesGuard("r1")
  \/ GetMessagesNext("r1")
  \/ GetMessagesCollect("r1")
  \/ ReadReturn("r1")

SpecClient == InitClient /\ [][NextClient]_vars

\* ------------------------------------------------------------ the store against the clock
\* Either store under two concurrent writers while the clock moves, with a reader taking
\* whole snapshots and a subscriber.
InitClock ==
  InitWith({"InMemoryMessageStore", "LogStore"}, {MaxCapacity}, {MaxChannelCapacity})

NextClock ==
  \/ Tick
  \/ \E a \in Adders : AddCall(a, MaxClockAppends)
  \/ \E a \in Adders : AddWrite(a)
  \/ \E a \in Adders : AddPushBack(a)
  \/ \E a \in Adders : AddPopFront(a)
  \/ \E a \in Adders : AddUnlock(a)
  \/ \E a \in Adders : AddBroadcast(a)
  \/ \E a \in Adders : LogStoreAddCall(a, MaxClockAppends)
  \/ \E a \in Adders : LogStorePushBack(a)
  \/ \E a \in Adders : LogStoreBroadcast(a)
  \/ \E a \in Adders : LogStoreUnlock(a)
  \/ GetMessagesCall("r1", None)
  \/ GetMessagesGuard("r1")
  \/ GetMessagesNext("r1")
  \/ GetMessagesCollect("r1")
  \/ ReadReturn("r1")
  \/ Subscribe("s1")
  \/ StreamNext("s1")

SpecClock == InitClock /\ [][NextClock]_vars

\* ------------------------------------------------------------ the sniffer on its own
\* The byte values the detectors look for, and one they do not (123, an opening brace).
SniffBytes == {1, 31, 120, 123, 139, 156, 218}

RECURSIVE BytesOfLen(_)
BytesOfLen(n) ==
  IF n = 0 THEN {<<>>}
  ELSE {Append(b, x) : b \in BytesOfLen(n - 1), x \in SniffBytes}

\* A byte sequence may go on after its written bytes once its first two are written.
Bodies(b) == IF Len(b) >= 2 THEN {0, MaxBody} ELSE {0}

\* What a flate2 decoder makes of a byte sequence: an error at once when it is too short
\* to hold a stream; otherwise the whole text "{}", an error at once, or an error after
\* the part "{" of the text.
Runs(body) ==
  IF body = 0 THEN {[ok |-> FALSE, text |-> NoText]}
  ELSE {[ok |-> TRUE, text |-> <<123, 125>>],
        [ok |-> FALSE, text |-> NoText],
        [ok |-> FALSE, text |-> <<123>>]}

\* The datagram of the bytes b followed by body more bytes, which are written 0.
Bytes(b, body, run) ==
  [head |-> IF Len(b) > 2 THEN SubSeq(b, 1, 2) ELSE b,
   len |-> Len(b) + body,
   inflated |-> run,
   text |-> IF body = 0 THEN b ELSE Append(b, 0)]

SniffInputs ==
  UNION {UNION {{Bytes(b, body, run) : run \in Runs(body)} : body \in Bodies(b)} :
           b \in UNION {BytesOfLen(n) : n \in 0..MaxBytes}}

\* compression_manager.decompress(input), called on its own; the debug line names the
\* decompressor that was chosen.
ApplyDecompress ==
  /\ output = None
  /\ output' = Some([compression_type |-> compression_type(input),
                     result |-> decompress(input)])
  /\ UNCHANGED input
  /\ UNCHANGED <<storeVars, adderVars, readerVars, chanVars, subVars, fanHist, pipeVars,
                 mainVars>>

InitSniff ==
  /\ InitProgram({"InMemoryMessageStore"}, {1}, {1})
  /\ input \in SniffInputs
  /\ output = None

NextSniff == ApplyDecompress

SpecSniff == InitSniff /\ [][NextSniff]_vars

\* ------------------------------------------------------------ the parser on its own
\* The named fields of GelfMessage, by type.
StringFields == {"version", "host", "short_message", "full_message", "facility", "file"}
NamedFields == StringFields \cup {"timestamp", "level", "line"}

\* JSON values: a string (v names its content), an integer v, a number with a fraction
\* (v is its tenths), null, true.
JsonString(v) == [t |-> "string", v |-> v]
JsonInt(v) == [t |-> "int", v |-> v]
JsonFloat(tenths) == [t |-> "float", v |-> tenths]
JsonNull == [t |-> "null", v |-> 0]
JsonTrue == [t |-> "bool", v |-> 1]

\* A JSON text: an object with its members (keys unique), or a text that is not an
\* object: an array, a scalar, an object cut short, a text with a syntax error.
JsonObject(members) == [kind |-> "object", members |-> members]
NotAnObject == {[kind |-> k, members |-> {}] : k \in {"array", "scalar", "truncated", "syntax"}}

Keys(doc) == {m.key : m \in doc.members}

\* What serde accepts for a named field: null for any (the field is an Option); a string
\* for a String; any number for the f64; an integer within the type for u8 and u32 (no
\* integer tried here reaches 2^32).
Fits(key, value) ==
  \/ value.t = "null"
  \/ key \in StringFields /\ value.t = "string"
  \/ key = "timestamp" /\ value.t \in {"int", "float"}
  \/ key = "level" /\ value.t = "int" /\ value.v >= 0 /\ value.v <= U8Max
  \/ key = "line" /\ value.t = "int" /\ value.v >= 0

\* The value of a named field as its type holds it: timestamp as f64 (in tenths), the
\* others by their content.
AsField(key, value) ==
  IF key = "timestamp" /\ value.t = "int" THEN 10 * value.v ELSE value.v

\* A named field after deserialization: None when the key is absent or null.
Field(doc, key) ==
  IF \E m \in doc.members : m.key = key /\ m.value.t # "null"
  THEN LET m == CHOOSE m \in doc.members : m.key = key IN Some(AsField(key, m.value))
  ELSE None

NoGelfMessage ==
  [k \in NamedFields |-> None] @@ [additional_fields |-> {}]

\* A deserializer without #[serde(flatten)]: keys that are not named fields are ignored.
from_str_no_flatten(doc) ==
  IF doc.kind = "object" /\ \A m \in doc.members : m.key \in NamedFields => Fits(m.key, m.value)
  THEN [ok |-> TRUE,
        gelf_msg |-> [k \in NamedFields |-> Field(doc, k)] @@ [additional_fields |-> {}]]
  ELSE [ok |-> FALSE, gelf_msg |-> NoGelfMessage]

\* A deserializer whose version, host and short_message are not Options.
from_str_required(doc) ==
  IF /\ doc.kind = "object"
     /\ \A m \in doc.members : m.key \in NamedFields => Fits(m.key, m.value)
     /\ {"version", "host", "short_message"} \subseteq Keys(doc)
  THEN [ok |-> TRUE,
        gelf_msg |-> [k \in NamedFields |-> Field(doc, k)]
                       @@ [additional_fields |->
                             {m \in doc.members : m.key \notin NamedFields}]]
  ELSE [ok |-> FALSE, gelf_msg |-> NoGelfMessage]

\* serde_json::from_str::<GelfMessage>: the text must be an object, and each named key
\* in it must carry a value its field's type accepts; the named keys fill their fields
\* and every other member goes, as it is, to additional_fields.
from_str(doc) ==
  IF doc.kind = "object" /\ \A m \in doc.members : m.key \in NamedFields => Fits(m.key, m.value)
  THEN [ok |-> TRUE,
        gelf_msg |-> [k \in NamedFields |-> Field(doc, k)]
                       @@ [additional_fields |->
                             {m \in doc.members : m.key \notin NamedFields}]]
  ELSE [ok |-> FALSE, gelf_msg |-> NoGelfMessage]

\* The value a sender gives a named field.
Typical(key) ==
  IF key \in StringFields THEN JsonString(1)
  ELSE IF key = "timestamp" THEN JsonFloat(15)
  ELSE IF key = "level" THEN JsonInt(6)
  ELSE JsonInt(42)

\* The objects that carry a subset of the named fields, each with the value a sender
\* gives it, and possibly a field of the sender's own.
SubsetDocs ==
  {JsonObject({[key |-> k, value |-> Typical(k)] : k \in S} \cup own) :
     S \in SUBSET NamedFields, own \in {{}, {[key |-> "_custom", value |-> JsonString(2)]}}}

\* The values tried for a key, and the keys they are tried for.
JsonValues ==
  {JsonString(1), JsonFloat(15), JsonNull, JsonTrue}
  \cup {JsonInt(v) : v \in {0 - 1, 0, 7, 8, U8Max, U8Max + 1}}
ProbedKeys == {"level", "line", "timestamp", "host", "_custom"}

\* The objects of up to MaxMembers members over those keys and values.
ValueDocs ==
  UNION {{JsonObject({[key |-> k, value |-> f[k]] : k \in K}) : f \in [K -> JsonValues]} :
           K \in {J \in SUBSET ProbedKeys : Cardinality(J) <= MaxMembers}}

ParseInputs == SubsetDocs \cup ValueDocs \cup NotAnObject

\* parser.parse(input), called on its own.
ApplyParse ==
  /\ output = None
  /\ output' = Some(from_str(input))
  /\ UNCHANGED input
  /\ UNCHANGED <<storeVars, adderVars, readerVars, chanVars, subVars, fanHist, pipeVars,
                 mainVars>>

InitParse ==
  /\ InitProgram({"InMemoryMessageStore"}, {1}, {1})
  /\ input \in ParseInputs
  /\ output = None

NextParse == ApplyParse

SpecParse == InitParse /\ [][NextParse]_vars

\* ------------------------------------------------------------ helpers of the properties
Range(q) == {q[i] : i \in DOMAIN q}

Min(a, b) == IF a <= b THEN a ELSE b

\* The last n elements of q, in order.
LastN(q, n) == SubSeq(q, Len(q) - n + 1, Len(q))

\* The newest-first view of store contents q under a limit: the Min(k, n) newest entries
\* as responses, where n = Len(q) and k is the limit if present and n otherwise.
NewestFirst(q, limit) ==
  LET n == Len(q)
      k == IF limit = None THEN n ELSE limit[1]
  IN [i \in 1..Min(k, n) |-> to_response(q[n + 1 - i])]

NoDuplicates(q) == \A i, j \in DOMAIN q : q[i] = q[j] => i = j

\* No add_message is between its push_back and the end of its eviction loop.
NoAppendInProgress == \A a \in Adders : apc[a] # "evict"

\* The messages published since s subscribed that s has neither received nor been told
\* it missed.
Pending(s) == Len(published) - subPub[s] - Len(delivered[s]) - skipped[s]

IsSubscribed(s) == spc[s] = "subscribed"

\* ------------------------------------------------------------ C1
\* C1: after every completed append the store holds exactly the Min(i, C) most recently
\* appended entries, oldest first, where i is the number of appends so far and C the
\* capacity; so its length is Min(i, C).
C1_EvictionBound ==
  NoAppendInProgress =>
    /\ Len(messages) = Min(Len(appended), max_size)
    /\ messages = LastN(appended, Min(Len(appended), max_size))

\* C1's case: a store of capacity at least 1 that has evicted, all appends completed.
C1_Witness ==
  /\ max_size >= 1
  /\ Len(appended) > max_size
  /\ \A a \in Adders : apc[a] = "idle"

\* ------------------------------------------------------------ C2
\* C2: a reader that holds the read guard never sees more entries than the capacity: not
\* in the store while it holds the guard, not in the contents it started from, not in the
\* vector it returns, not in the total_messages it reports.
C2_ReadersWithinCapacity ==
  \A r \in Readers :
    /\ HoldsRead(r) => Len(messages) <= max_size
    /\ rpc[r] \in {"iter", "done"} => Len(snap[r]) <= max_size
    /\ (rpc[r] = "done" /\ rop[r] = "get") => Len(rresult[r]) <= max_size
    /\ (rpc[r] = "done" /\ rop[r] = "stats") => rresult[r].total_messages <= max_size

\* C2's case: a reader's call has returned, and between its call and its return the
\* store was over capacity (an add_message was between push_back and the end of its
\* eviction loop).
C2_Witness ==
  \E r \in Readers :
    /\ rpc[r] = "done"
    /\ max_size >= 1
    /\ \E v \in views[r] : Len(v) > max_size

\* ------------------------------------------------------------ C3
\* C3: every message handed to the broadcaster, and so every message a subscriber
\* receives, is the response of an entry that was pushed into the store before.
C3_PublishAfterAppend ==
  /\ \A i \in DOMAIN published : \E j \in DOMAIN appended : published[i] = to_response(appended[j])
  /\ \A s \in Subscribers : \A i \in DOMAIN delivered[s] :
       \E j \in DOMAIN appended : delivered[s][i] = to_response(appended[j])

\* C3's case: a subscriber has received a message.
C3_Witness == \E s \in Subscribers : IsSubscribed(s) /\ Len(delivered[s]) >= 1

\* ------------------------------------------------------------ C4
\* C4: get_messages(limit) returns the Min(k, n) newest entries of the store it read,
\* newest first, k being the limit if present and n otherwise.
C4_SnapshotLimit ==
  \A r \in Readers :
    (rpc[r] = "done" /\ rop[r] = "get") =>
      /\ rresult[r] = NewestFirst(snap[r], rlimit[r])
      /\ rlimit[r] = Some(0) => rresult[r] = <<>>
      /\ (rlimit[r] # None /\ rlimit[r][1] >= Len(snap[r])) => Len(rresult[r]) = Len(snap[r])

\* C4's case: a limit below the number of entries held has cut the result.
C4_Witness ==
  \E r \in Readers :
    /\ rpc[r] = "done" /\ rop[r] = "get"
    /\ rlimit[r] = Some(1)
    /\ Len(snap[r]) = 2
    /\ Len(rresult[r]) = 1

\* ------------------------------------------------------------ C5
\* C5: the vector a get_messages call returns is the newest-first view of one value the
\* store had between the call and the return, and holds no entry twice.
C5_SnapshotAtOneInstant ==
  \A r \in Readers :
    (rpc[r] = "done" /\ rop[r] = "get") =>
      /\ \E v \in views[r] : rresult[r] = NewestFirst(v, rlimit[r])
      /\ NoDuplicates(rresult[r])

\* C5's case: the store changed between the call and the return of a non-empty result.
C5_Witness ==
  \E r \in Readers :
    /\ rpc[r] = "done" /\ rop[r] = "get"
    /\ Cardinality(views[r]) >= 3
    /\ Len(rresult[r]) >= 2

\* ------------------------------------------------------------ C6
\* C6 as stated: get_messages(None) returns every entry that was in the store when the
\* call was made (taken in its most favourable case: capacity at least 1 and a store
\* within its capacity at the call).
C6_Original ==
  \A r \in Readers :
    (/\ rpc[r] = "done" /\ rop[r] = "get" /\ rlimit[r] = None
     /\ max_size >= 1 /\ Len(atCall[r]) <= max_size) =>
      \A e \in Range(atCall[r]) : to_response(e) \in Range(rresult[r])

\* C6 amended: get_messages(None) returns every entry that was in the store when its read
\* guard was granted; an entry of the call time is left out only if it had been evicted
\* by then.
C6_NoOmissionSinceGuard ==
  \A r \in Readers :
    (rpc[r] = "done" /\ rop[r] = "get" /\ rlimit[r] = None) =>
      /\ \A e \in Range(snap[r]) : to_response(e) \in Range(rresult[r])
      /\ \A e \in Range(atCall[r]) :
           to_response(e) \notin Range(rresult[r]) => e \notin Range(snap[r])

\* C6's case: a call made on a store within capacity returned without an entry of the
\* call time, which an add_message had evicted before the guard was granted.
C6_Witness ==
  \E r \in Readers :
    /\ rpc[r] = "done" /\ rop[r] = "get" /\ rlimit[r] = None
    /\ max_size >= 1 /\ Len(atCall[r]) <= max_size
    /\ \E e \in Range(atCall[r]) : to_response(e) \notin Range(rresult[r])

\* ------------------------------------------------------------ C7
\* C7: no message a subscriber receives was published before its subscribe() returned.
C7_NoReplay ==
  \A s \in Subscribers :
    IsSubscribed(s) =>
      \A i \in DOMAIN delivered[s] :
        \A j \in 1..subPub[s] : delivered[s][i] # published[j]

\* C7's case: two subscribers, one before and one after a publish that the channel still
\* retains; the first received it, the second has received a later message only.
C7_Witness ==
  \E s1, s2 \in Subscribers :
    /\ IsSubscribed(s1) /\ IsSubscribed(s2)
    /\ subPub[s1] < subPub[s2]
    /\ Len(delivered[s1]) > Len(delivered[s2])
    /\ Len(delivered[s2]) >= 1
    /\ lagCount[s1] = 0

\* ------------------------------------------------------------ C8
\* C8: a subscriber that has never been more than the channel's length behind has got no
\* lag signal, has received exactly the first messages published after it subscribed, once
\* each and in publication order, and its next receive returns the next of them.
C8_InOrderExactlyOnce ==
  \A s \in Subscribers :
    (IsSubscribed(s) /\ lagCount[s] = 0 /\ Pending(s) <= BufferLen) =>
      /\ Pending(s) >= 0
      /\ delivered[s] = SubSeq(published, subPub[s] + 1, subPub[s] + Len(delivered[s]))
      /\ RecvOutcome(snext[s]).kind # "lagged"
      /\ Pending(s) > 0 =>
           /\ RecvOutcome(snext[s]).kind = "ok"
           /\ RecvOutcome(snext[s]).val = published[subPub[s] + Len(delivered[s]) + 1]

\* C8's case: a subscriber that joined after a publish has received several messages and
\* has none pending.
C8_Witness ==
  \E s \in Subscribers :
    /\ IsSubscribed(s) /\ lagCount[s] = 0
    /\ subPub[s] >= 1
    /\ Len(delivered[s]) >= 2
    /\ Pending(s) = 0

\* ------------------------------------------------------------ C9
\* C9: when more messages are pending for a subscriber than the channel has slots, its
\* next receive is ready and returns the lag signal, not a message; and a publish never
\* waits: an add_message that has reached its broadcast can always take that step.
C9_LagSignalNotBlocking ==
  /\ \A s \in Subscribers :
       (IsSubscribed(s) /\ Pending(s) > BufferLen) =>
         /\ RecvOutcome(snext[s]).kind = "lagged"
         /\ ENABLED StreamNext(s)
  /\ \A a \in Adders : apc[a] = "broadcast" => ENABLED AddBroadcast(a)

\* C9's case: a subscriber that received nothing has observed the lag signal, and every
\* add_message that was called has completed.
C9_Witness ==
  \E s \in Subscribers :
    /\ IsSubscribed(s)
    /\ lagCount[s] >= 1
    /\ delivered[s] = <<>>
    /\ \A a \in Adders : apc[a] = "idle"

\* ------------------------------------------------------------ C11
\* C11: every add_message call runs to its end whatever the subscribers do: once called it
\* eventually returns; its publish step is never disabled; and however many receivers the
\* channel had, every call made has appended its record, which a store of capacity at
\* least 1 holds as its newest entry when the call has returned.
C11_AddMessageTerminates ==
  /\ \A a \in Adders : (apc[a] = "created") ~> (apc[a] = "idle")
  /\ [](\A a \in Adders : apc[a] = "broadcast" =>
          /\ ENABLED AddBroadcast(a)
          /\ astored[a] \in Range(appended))
  /\ []((\A a \in Adders : apc[a] = "idle") =>
          /\ Len(appended) = nextRec
          /\ Len(published) = nextRec
          /\ (max_size >= 1 /\ nextRec >= 1) =>
               messages[Len(messages)].gelf_message = nextRec)

\* C11's case: calls have returned that published to no receiver at all, and calls have
\* returned that published to a receiver which never received and whose channel is full.
C11_Witness ==
  \E s \in Subscribers :
    /\ \A a \in Adders : apc[a] = "idle"
    /\ IsSubscribed(s) /\ subPub[s] >= 1 /\ dropPub = -1
    /\ \A t \in Subscribers \ {s} : ~IsSubscribed(t)
    /\ delivered[s] = <<>> /\ lagCount[s] = 0
    /\ Pending(s) > BufferLen
    /\ Len(appended) = Len(published)

\* ------------------------------------------------------------ C12
\* The subscriber s has kept up: no lag signal so far and no more pending than the channel
\* has slots. Then it has received, in order and once each, the first messages published
\* since it subscribed, and its next receive returns the next one if there is one.
KeptUp(s) == IsSubscribed(s) /\ lagCount[s] = 0 /\ Pending(s) <= BufferLen

InOrderSoFar(s) ==
  /\ Pending(s) >= 0
  /\ delivered[s] = SubSeq(published, subPub[s] + 1, subPub[s] + Len(delivered[s]))
  /\ RecvOutcome(snext[s]).kind # "lagged"
  /\ Pending(s) > 0 =>
       /\ RecvOutcome(snext[s]).kind = "ok"
       /\ RecvOutcome(snext[s]).val = published[subPub[s] + Len(delivered[s]) + 1]

\* The step in which s's handle is dropped leaves the channel's values, the other
\* receivers, the store and the add_message calls as they were.
DropFrame(s) ==
  /\ buffer' = buffer /\ tailPos' = tailPos
  /\ messages' = messages /\ lock' = lock /\ apc' = apc
  /\ \A t \in Subscribers \ {s} :
       /\ spc'[t] = spc[t] /\ snext'[t] = snext[t]
       /\ delivered'[t] = delivered[t] /\ lagCount'[t] = lagCount[t]

\* C12: dropping a subscriber's handle changes nothing for the others. The drop step
\* itself touches only the dropped receiver; and once a handle has been dropped the
\* channel still counts exactly the live receivers, every subscriber that keeps up still
\* receives every message in publication order, and add_message still publishes without
\* waiting and has appended every record when it returns.
C12_DropLeavesOthers ==
  /\ [][\A s \in Subscribers : (spc[s] = "subscribed" /\ spc'[s] = "idle") => DropFrame(s)]_vars
  /\ [](dropPub >= 0 =>
          /\ rxCnt = Cardinality({s \in Subscribers : IsSubscribed(s)})
          /\ \A s \in Subscribers : KeptUp(s) => InOrderSoFar(s)
          /\ \A a \in Adders : apc[a] = "broadcast" => ENABLED AddBroadcast(a)
          /\ (\A a \in Adders : apc[a] = "idle") => Len(appended) = nextRec)

\* C12's case: a subscriber that was there when another handle was dropped has since
\* received a message published after the drop.
C12_Witness ==
  \E s \in Subscribers :
    /\ KeptUp(s)
    /\ dropPub >= 0 /\ subPub[s] < dropPub
    /\ subPub[s] + Len(delivered[s]) > dropPub
    /\ \A a \in Adders : apc[a] = "idle"

\* ------------------------------------------------------------ C13
\* C13: a lag signal given to one subscriber is that subscriber's alone. When a subscriber
\* has got one, every call of add_message made has still appended and published its
\* record, the store still holds the newest entries within its capacity, and every other
\* subscriber that keeps up has received every message in order and gets no lag signal.
C13_LagIsPrivate ==
  \A t \in Subscribers :
    (IsSubscribed(t) /\ lagCount[t] >= 1) =>
      /\ (\A a \in Adders : apc[a] = "idle") =>
           Len(appended) = nextRec /\ Len(published) = nextRec
      /\ NoAppendInProgress => messages = LastN(appended, Min(Len(appended), max_size))
      /\ \A s \in Subscribers \ {t} : KeptUp(s) => InOrderSoFar(s)

\* C13's case: one subscriber has got a lag signal while another, subscribed no later,
\* has received every message published and never a lag signal.
C13_Witness ==
  \E s, t \in Subscribers :
    /\ s # t
    /\ IsSubscribed(t) /\ lagCount[t] >= 1
    /\ KeptUp(s) /\ subPub[s] <= subPub[t]
    /\ Pending(s) = 0
    /\ Len(delivered[s]) > BufferLen

\* ------------------------------------------------------------ C14
\* The messages s received since its last lag signal.
SinceLag(s) == SubSeq(delivered[s], lagDeliv[s] + 1, Len(delivered[s]))

\* C14: a subscriber that got a lag signal and has not fallen behind again receives
\* messages again: what it received since the signal is a run of consecutive published
\* messages that ends where its pending ones begin, so that with the pending ones it is a
\* suffix of the published sequence; all it ever received is in publication order with
\* nothing twice; and its next receive returns the next message, not a lag signal.
C14_ResumesAfterLag ==
  \A s \in Subscribers :
    (IsSubscribed(s) /\ lagCount[s] >= 1 /\ Pending(s) <= BufferLen) =>
      LET head == Len(published) - Pending(s)
          k == Len(delivered[s]) - lagDeliv[s]
      IN /\ Pending(s) >= 0
         /\ k >= 0 /\ head - k >= subPub[s]
         /\ SinceLag(s) = SubSeq(published, head - k + 1, head)
         /\ \A i, j \in DOMAIN delivered[s] :
              i < j => delivered[s][i].gelf_message < delivered[s][j].gelf_message
         /\ RecvOutcome(snext[s]).kind # "lagged"
         /\ Pending(s) > 0 =>
              /\ RecvOutcome(snext[s]).kind = "ok"
              /\ RecvOutcome(snext[s]).val = published[head + 1]

\* C14's case: a subscriber received a message, then a lag signal, then two messages, the
\* last of them the last one published.
C14_Witness ==
  \E s \in Subscribers :
    /\ IsSubscribed(s) /\ lagCount[s] = 1
    /\ lagDeliv[s] >= 1
    /\ Len(delivered[s]) - lagDeliv[s] >= 2
    /\ Pending(s) = 0

\* ------------------------------------------------------------ C15
\* C15 as stated: the stream ends at a lag signal, so a subscriber that got one receives
\* no message after it.
C15_Original ==
  \A s \in Subscribers : lagCount[s] >= 1 => Len(delivered[s]) = lagDeliv[s]

\* C15 amended: a lag signal does not end the stream. The subscriber that got one is still
\* subscribed, its receiver is still counted by the channel, and whenever messages are
\* pending for it its next poll is ready.
C15_StreamSurvivesLag ==
  \A s \in Subscribers :
    lagCount[s] >= 1 =>
      /\ IsSubscribed(s)
      /\ rxCnt >= 1
      /\ Pending(s) > 0 => ENABLED StreamNext(s)

\* C15's case: a stream that went through two lag signals and yielded a message after the
\* second.
C15_Witness ==
  \E s \in Subscribers :
    /\ IsSubscribed(s) /\ lagCount[s] >= 2
    /\ Len(delivered[s]) > lagDeliv[s]

\* ------------------------------------------------------------ helpers of C16..C20
\* The recv_from result e is a datagram that decompresses and whose text parses.
Accepted(e) ==
  /\ e.ok
  /\ decompress(e.data).ok
  /\ parse(decompress(e.data).text).ok

\* The reception numbers of the accepted ones among ev, in reception order.
AcceptedIds(ev) ==
  SelectSeq([i \in 1..Len(ev) |-> i], LAMBDA i : Accepted(ev[i]))

\* The records of a sequence of entries or responses.
Ids(q) == [i \in DOMAIN q |-> q[i].gelf_message]

AllButLast(q) == SubSeq(q, 1, Len(q) - 1)

\* The recv_from results whose loop iteration is over.
Handled == IF ppc \in {"recv", "error"} THEN events ELSE AllButLast(events)

\* ------------------------------------------------------------ C16
\* C16: the ingestion loop appends exactly the datagrams that decompress and parse. Outside
\* an add_message call the number of appends is the number of accepted datagrams among
\* those handled; during one, the datagram in hand is an accepted one; the loop has no
\* other position than its five, whatever it was fed; with a datagram in hand that fails
\* its next step, that step can be taken and leads to the receive; and at the receive, on
\* an open socket, any datagram can be taken next.
C16_AppendsAreTheAccepted ==
  /\ ppc \in {"recv", "error", "decompress", "parse", "add"}
  /\ ppc # "add" =>
       /\ apc[UdpTask] = "idle"
       /\ Len(appended) = Len(AcceptedIds(Handled))
  /\ ppc = "add" =>
       /\ Accepted(events[Len(events)])
       /\ Len(appended) \in {Len(AcceptedIds(events)) - 1, Len(AcceptedIds(events))}
  /\ (ppc = "decompress" /\ ~decompress(raw_data).ok) =>
       ENABLED (RunDecompress /\ ppc' = "recv")
  /\ (ppc = "parse" /\ ~parse(message_str).ok) =>
       ENABLED (RunParse /\ ppc' = "recv")
  /\ (ppc = "recv" /\ sock = "open" /\ Len(events) < MaxDatagrams) =>
       \A shape \in Shapes : ENABLED RunRecvOk(shape)

\* C16's case: a datagram whose decompression failed, one whose text did not parse, then a
\* valid one: one append, of the third, and the loop is at the receive.
C16_Witness ==
  /\ Len(events) = 3
  /\ events[1].ok /\ ~decompress(events[1].data).ok
  /\ events[2].ok /\ decompress(events[2].data).ok /\ ~Accepted(events[2])
  /\ Accepted(events[3])
  /\ ppc = "recv"
  /\ Ids(appended) = <<3>>

\* ------------------------------------------------------------ C17
\* The step that drops the datagram in hand: from decompress or parse back to the receive.
DropStep == ppc \in {"decompress", "parse"} /\ ppc' = "recv"

\* C17: a datagram that fails to decompress or to parse leaves no trace. The step that
\* drops it changes neither the store nor the channel nor starts an add_message; and no
\* entry pushed, stored or in the hands of add_message, and no message published, held by
\* the channel or delivered, ever carries its reception number or any text of it. No
\* datagram is appended twice.
C17_MalformedLeavesNoTrace ==
  /\ [][DropStep => UNCHANGED <<messages, appended, published, buffer, tailPos, apc, astored>>]_vars
  /\ [](\A i \in DOMAIN events :
          (events[i].ok /\ ~Accepted(events[i])) =>
            LET texts == {events[i].data.text, events[i].data.inflated.text} \ {NoText} IN
              /\ \A m \in Range(appended) \cup Range(messages) \cup {astored[UdpTask]} :
                   m.gelf_message # i /\ m.raw_message \notin texts
              /\ \A m \in Range(published) \cup {buffer[k].val : k \in DOMAIN buffer} :
                   m.gelf_message # i
              /\ \A s \in Subscribers : \A m \in Range(delivered[s]) : m.gelf_message # i)
  /\ [](NoDuplicates(Ids(appended)))

\* C17's case: a subscriber that was there from the start has received the one valid
\* datagram out of three; the other two were a corrupt compressed stream and a compressed
\* text that does not parse.
C17_Witness ==
  /\ Len(events) = 3
  /\ \E i, j \in 1..3 :
       /\ events[i].ok /\ ~decompress(events[i].data).ok
       /\ events[j].ok /\ GzipCanHandle(events[j].data)
       /\ decompress(events[j].data).ok /\ ~Accepted(events[j])
  /\ IsSubscribed("s1") /\ subPub["s1"] = 0
  /\ Len(delivered["s1"]) = 1
  /\ Len(published) = 1
  /\ ppc = "recv"

\* ------------------------------------------------------------ C18
\* The steps of a receive error: recv_from returns it, and the Err arm is left.
RecvErrStep == ppc = "recv" /\ ppc' = "error"
ErrArmStep == ppc = "error" /\ ppc' # "error"

\* C18: a receive error changes neither the store nor the broadcaster, and from its arm
\* the loop goes to the receive and nowhere else; and an accepted datagram that came right
\* after an error has been appended and published once its iteration is over.
C18_RecvErrorIsHarmless ==
  /\ [][(RecvErrStep \/ ErrArmStep) =>
          UNCHANGED <<messages, appended, lock, apc, published, buffer, tailPos, rxCnt>>]_vars
  /\ [][ErrArmStep => ppc' = "recv"]_vars
  /\ [](ppc = "error" => ENABLED RunRecvErrLogged)
  /\ [](\A i \in DOMAIN Handled :
          (i >= 2 /\ ~events[i - 1].ok /\ Accepted(events[i])) =>
            /\ \E j \in DOMAIN appended : appended[j].gelf_message = i
            /\ \E j \in DOMAIN published : published[j].gelf_message = i)

\* C18's case: a receive error, then a compressed datagram that was appended and
\* published, with the socket still open.
C18_Witness ==
  /\ Len(events) >= 2
  /\ ~events[1].ok
  /\ Accepted(events[2]) /\ ZlibCanHandle(events[2].data)
  /\ sock = "open"
  /\ ppc = "recv"
  /\ Ids(published) = <<2>>

\* ------------------------------------------------------------ C19
\* C19 as stated: once the transport has failed for good, the ingestion loop eventually
\* returns (which is what the supervisor's select on the task would observe). The loop
\* has no position after itself: "returned" is the position it would need.
C19_LoopEndsOnTransportFailure == (sock = "failed") ~> (ppc = "returned")

\* ------------------------------------------------------------ C20
\* C20: the loop handles one datagram at a time. No add_message is in progress while the
\* loop receives, decompresses or parses; the records pushed, and the records published,
\* are in reception order the accepted datagrams handled so far (with the one in hand
\* during its add_message); the store holds the newest of them oldest first; and a
\* subscriber that keeps up has received them in that order.
C20_OneAtATime ==
  /\ ppc # "add" => apc[UdpTask] = "idle"
  /\ Ids(appended) \in {AcceptedIds(Handled), AcceptedIds(events)}
  /\ Ids(published) \in {AcceptedIds(Handled), AcceptedIds(events)}
  /\ ppc # "add" =>
       Ids(appended) = AcceptedIds(Handled) /\ Ids(published) = AcceptedIds(Handled)
  /\ Len(published) <= Len(appended)
  /\ NoAppendInProgress =>
       Ids(messages) = LastN(Ids(appended), Min(Len(appended), max_size))
  /\ \A s \in Subscribers :
       KeptUp(s) =>
         Ids(delivered[s]) = SubSeq(Ids(published), subPub[s] + 1, subPub[s] + Len(delivered[s]))

\* C20's case: three accepted datagrams, plain, gzip and zlib, all handled; the store has
\* evicted the first, and a subscriber that came after the first has received the others.
C20_Witness ==
  /\ Len(events) = 3
  /\ \A i \in 1..3 : Accepted(events[i])
  /\ \E i, j \in 1..3 : GzipCanHandle(events[i].data) /\ ZlibCanHandle(events[j].data)
  /\ ppc = "recv"
  /\ Len(messages) = max_size /\ Ids(messages) = <<2, 3>>
  /\ Ids(published) = <<1, 2, 3>>
  /\ IsSubscribed("s1") /\ subPub["s1"] = 1 /\ Ids(delivered["s1"]) = <<2, 3>>

\* ------------------------------------------------------------ helpers of C21..C23
\* The input begins with the gzip magic bytes 0x1f 0x8b.
BeginsWithGzipMagic(data) == data.len >= 2 /\ data.head[1] = 31 /\ data.head[2] = 139

\* The input begins with 0x78 followed by 0x9c, 0xda or 0x01.
BeginsWithZlibMagic(data) ==
  data.len >= 2 /\ data.head[1] = 120 /\ data.head[2] \in {156, 218, 1}

\* The decompressor the magic prefixes name, gzip before zlib.
PrefixSays(data) ==
  IF BeginsWithGzipMagic(data) THEN "GZIP"
  ELSE IF BeginsWithZlibMagic(data) THEN "ZLIB"
  ELSE "none"

Decompressed == output # None

\* ------------------------------------------------------------ C21
\* C21: for an input of every length, decompress selects gzip exactly when the input
\* begins with 0x1f 0x8b, otherwise zlib exactly when it begins with 0x78 and one of
\* 0x9c, 0xda, 0x01, otherwise no decompressor; an input that is exactly the two magic
\* bytes is selected as well.
C21_SelectsByPrefixAtEveryLength ==
  Decompressed => output[1].compression_type = PrefixSays(input)

\* What the detectors do select by: the prefix of an input of more than two bytes.
SelectsByPrefixOverTwoBytes ==
  Decompressed =>
    output[1].compression_type = (IF input.len > 2 THEN PrefixSays(input) ELSE "none")

\* ------------------------------------------------------------ C22
\* C22: an input that begins with no magic prefix, the empty input and an input of one
\* byte among them, comes back from decompress as Ok with exactly the bytes of the input.
C22_NoMatchReturnsInput ==
  (Decompressed /\ PrefixSays(input) = "none") =>
    output[1].result = [ok |-> TRUE, text |-> input.text]

\* decompress has returned the one byte 0x1f it was given.
C22_Witness ==
  /\ Decompressed
  /\ input.len = 1
  /\ input.text = <<31>>
  /\ output[1].result = [ok |-> TRUE, text |-> <<31>>]

\* ------------------------------------------------------------ C23
\* C23: when a detector matches and its decoder fails on the payload, decompress returns
\* the error: not Ok with the part decoded so far, not what another decompressor would
\* make of the input, and not the input itself.
C23_CorruptPayloadIsAnError ==
  (Decompressed /\ (GzipCanHandle(input) \/ ZlibCanHandle(input)) /\ ~input.inflated.ok) =>
    /\ output[1].result = [ok |-> FALSE, text |-> NoText]
    /\ output[1].result.text # input.inflated.text \/ input.inflated.text = NoText
    /\ output[1].result.text # input.text

\* decompress has returned an error for a gzip input whose decoder failed after it had
\* decoded part of the text.
C23_Witness ==
  /\ Decompressed
  /\ GzipCanHandle(input)
  /\ ~input.inflated.ok
  /\ input.inflated.text # NoText
  /\ ~output[1].result.ok

\* ------------------------------------------------------------ C24
Parsed == output # None

\* C24: for every object the parser accepts, each top-level key that is not a named
\* field is in additional_fields with its value unchanged, each named key is in its named
\* field and not in additional_fields, and additional_fields holds nothing else, so no
\* key is lost.
C24_KeysKeepTheirPlace ==
  (Parsed /\ output[1].ok) =>
    LET g == output[1].gelf_msg IN
      /\ \A m \in input.members :
           IF m.key \in NamedFields
           THEN /\ g[m.key] = (IF m.value.t = "null" THEN None
                               ELSE Some(AsField(m.key, m.value)))
                /\ \A x \in g.additional_fields : x.key # m.key
           ELSE m \in g.additional_fields
      /\ g.additional_fields \subseteq input.members

\* {"level": 8, "_custom": true} has been parsed: level is Some(8) and _custom is the one
\* additional field.
C24_Witness ==
  /\ Parsed
  /\ input = JsonObject({[key |-> "level", value |-> JsonInt(8)],
                         [key |-> "_custom", value |-> JsonTrue]})
  /\ output[1].ok
  /\ output[1].gelf_msg.level = Some(8)
  /\ output[1].gelf_msg.additional_fields = {[key |-> "_custom", value |-> JsonTrue]}

\* ------------------------------------------------------------ C25
\* C25: for every subset of the named fields, the empty one included, an object that
\* carries just that subset (well-formed values) is parsed successfully, every absent
\* field is None and every field present is not.
C25_AbsentFieldsAreNone ==
  (Parsed /\ input \in SubsetDocs) =>
    /\ output[1].ok
    /\ \A k \in NamedFields : (k \notin Keys(input)) <=> (output[1].gelf_msg[k] = None)

\* The empty object has been parsed: every named field is None.
C25_Witness ==
  /\ Parsed
  /\ input = JsonObject({})
  /\ output[1].ok
  /\ \A k \in NamedFields : output[1].gelf_msg[k] = None

\* ------------------------------------------------------------ C26
\* C26: the parser fails only on input that is not a well-formed object: every object
\* is parsed successfully whatever the values of its fields, and an integer level, within
\* 0..7 or not, is stored as given.
C26_OnlyStructureIsRejected ==
  Parsed =>
    /\ output[1].ok <=> (input.kind = "object")
    /\ \A m \in input.members :
         (m.key = "level" /\ m.value.t = "int") => output[1].gelf_msg.level = Some(m.value.v)

\* What the typed fields do accept: an object is parsed exactly when each named key
\* carries a value of its field's type, and then a level up to U8Max is stored as given.
TypedFieldsAreChecked ==
  Parsed =>
    /\ output[1].ok <=>
         /\ input.kind = "object"
         /\ \A m \in input.members : m.key \in NamedFields => Fits(m.key, m.value)
    /\ \A m \in input.members :
         (output[1].ok /\ m.key = "level" /\ m.value.t = "int") =>
           output[1].gelf_msg.level = Some(m.value.v)

\* ------------------------------------------------------------ C27
\* C27: what get_stats returns is total_messages equal to the length the store had at one
\* instant of the call, max_capacity equal to the configured capacity and
\* capacity_used_percent equal to length / capacity * 100; for a capacity of at least 1
\* total_messages is at most max_capacity and the percentage is between 0 and 100.
C27_StatsAreOfOneInstant ==
  \A r \in Readers :
    (rpc[r] = "done" /\ rop[r] = "stats") =>
      /\ snap[r] \in views[r]
      /\ rresult[r].total_messages = Len(snap[r])
      /\ rresult[r].max_capacity = max_size
      /\ rresult[r].capacity_used_percent = [num |-> Len(snap[r]) * 100, den |-> max_size]
      /\ max_size >= 1 =>
           /\ rresult[r].total_messages <= rresult[r].max_capacity
           /\ rresult[r].capacity_used_percent.num >= 0
           /\ rresult[r].capacity_used_percent.num
                <= 100 * rresult[r].capacity_used_percent.den

\* get_stats has returned 2 of 2, 100 percent, after a third message evicted the first.
C27_Witness ==
  \E r \in Readers :
    /\ rpc[r] = "done"
    /\ rop[r] = "stats"
    /\ Len(appended) = 3
    /\ rresult[r] = [total_messages |-> 2, max_capacity |-> 2,
                     capacity_used_percent |-> [num |-> 200, den |-> 2]]

\* ------------------------------------------------------------ helpers of C28..C30
\* The add_message call is where its code holds the write guard: the guard was granted
\* and is not dropped yet.
InWriteGuard(a) ==
  \/ apc[a] = "waiting" /\ HoldsWrite(a)
  \/ apc[a] \in {"evict", "unlock"}

\* The get_messages or get_stats call is where its code holds the read guard.
InReadGuard(r) ==
  \/ rpc[r] = "waiting" /\ HoldsRead(r)
  \/ rpc[r] = "iter"

\* ------------------------------------------------------------ C28
\* C28: no add_message holds the store's lock while a get_messages or get_stats call or
\* another add_message holds it; calls of get_messages and get_stats may hold it
\* together: one that asks while only such calls hold it and nothing waits is let in.
C28_ReadersShareWritersExclude ==
  /\ \A a \in Adders :
       InWriteGuard(a) =>
         /\ HoldsWrite(a)
         /\ \A b \in Adders \ {a} : ~InWriteGuard(b)
         /\ \A r \in Readers : ~InReadGuard(r)
  /\ \A r \in Readers : rpc[r] = "iter" => HoldsRead(r)
  /\ \A r \in Readers :
       (rpc[r] = "idle" /\ lock.writer = NoTask /\ lock.queue = <<>>) =>
         r \in Acquire(lock, r).readers

\* Both readers are inside get_messages' read guard at once, an add_message waiting.
C28_Witness ==
  /\ rpc["r1"] = "iter"
  /\ rpc["r2"] = "iter"
  /\ lock.readers = {"r1", "r2"}
  /\ \E a \in Adders : apc[a] = "waiting" /\ ~HoldsWrite(a)

\* ------------------------------------------------------------ C29
\* The add_message call has inserted its record and has not published it yet.
InsertedNotPublished(a) ==
  IF impl = "LogStore" THEN apc[a] = "evict" ELSE apc[a] \in {"evict", "broadcast"}

\* C29: between the moment an add_message inserts its record and the moment it publishes
\* it, no get_messages or get_stats call holds the store and no other add_message is
\* between its own insert and publish or holds the store.
C29_AppendIsExclusiveThroughPublish ==
  \A a \in Adders :
    InsertedNotPublished(a) =>
      /\ \A r \in Readers : ~InReadGuard(r)
      /\ \A b \in Adders \ {a} : ~InWriteGuard(b) /\ ~InsertedNotPublished(b)

\* What holds of both stores: the step is exclusive from the insert to the release of the
\* write guard, which LogStore::add_message does after publishing and
\* InMemoryMessageStore::add_message before.
AppendIsExclusiveWhileGuarded ==
  \A a \in Adders :
    (InsertedNotPublished(a) /\ (impl = "LogStore" \/ apc[a] = "evict")) =>
      /\ \A r \in Readers : ~InReadGuard(r)
      /\ \A b \in Adders \ {a} : ~InWriteGuard(b)

\* ------------------------------------------------------------ C30
\* Whatever the others do, a holder's next step can be taken, and a writer past its insert
\* has at most one eviction, its publish and the release left.
HoldersCanStep ==
  /\ \A a \in Adders :
       HoldsWrite(a) =>
         /\ apc[a] \in {"waiting", "evict", "unlock"}
         /\ ENABLED (\/ AddPushBack(a) \/ AddPopFront(a) \/ AddUnlock(a)
                     \/ LogStorePushBack(a) \/ LogStoreBroadcast(a) \/ LogStoreUnlock(a))
         /\ apc[a] = "evict" => Len(messages) <= max_size + 1
         /\ apc[a] = "unlock" => Len(messages) <= max_size
  /\ \A r \in Readers :
       HoldsRead(r) =>
         /\ rpc[r] \in {"waiting", "iter"}
         /\ ENABLED (\/ GetMessagesGuard(r) \/ GetMessagesNext(r)
                     \/ GetMessagesCollect(r) \/ GetStatsRead(r))

\* C30: whoever holds the store's lock is not waiting: the ingestion task holds it only
\* inside add_message, never at the socket receive; whatever the socket and the
\* subscribers do, the holder's next step can be taken; and a holder past its insert has
\* at most one eviction, its publish and the release left.
C30_LockHolderIsNotSuspended ==
  /\ HoldsWrite(UdpTask) => ppc = "add"
  /\ HoldersCanStep

\* LogStore::add_message holds the write guard and is about to publish while the
\* subscriber has read nothing of a full channel and the socket has failed.
C30_Witness ==
  /\ impl = "LogStore"
  /\ HoldsWrite(UdpTask)
  /\ apc[UdpTask] = "evict"
  /\ IsSubscribed("s1")
  /\ tailPos - snext["s1"] >= BufferLen
  /\ sock = "failed"

\* ------------------------------------------------------------ C31
Cancelled == ppc = "cancelled"

\* The steps a reader takes with the read guard.
ReaderCanStep(r) ==
  ENABLED (\/ GetMessagesGuard(r) \/ GetMessagesNext(r)
           \/ GetMessagesCollect(r) \/ GetStatsRead(r))

\* C31: once the ingestion task is cancelled the store's lock is not held or asked for by
\* it, the store is within its capacity, a reader that asks is let in and one that is in
\* can go on, and a subscriber with a message to receive can receive it; once a
\* subscriber is gone the ingestion task's append and publish steps can still be taken;
\* and the store is within its capacity whenever no add_message holds the lock.
C31_StoppingOneLeavesTheOther ==
  /\ Cancelled =>
       /\ lock.writer = NoTask
       /\ \A i \in DOMAIN lock.queue : lock.queue[i] # UdpTask
       /\ Len(messages) <= max_size
       /\ \A r \in Readers :
            /\ rpc[r] = "idle" => r \in Acquire(lock, r).readers
            /\ rpc[r] = "waiting" => HoldsRead(r)
            /\ rpc[r] \in {"waiting", "iter"} => ReaderCanStep(r)
       /\ \A s \in Subscribers :
            (IsSubscribed(s) /\ snext[s] < tailPos) => ENABLED StreamNext(s)
  /\ (dropPub >= 0 /\ ~Cancelled) =>
       /\ HoldsWrite(UdpTask) =>
            ENABLED (\/ AddPushBack(UdpTask) \/ AddPopFront(UdpTask) \/ AddUnlock(UdpTask)
                     \/ LogStorePushBack(UdpTask) \/ LogStoreBroadcast(UdpTask)
                     \/ LogStoreUnlock(UdpTask))
       /\ apc[UdpTask] = "broadcast" => ENABLED AddBroadcast(UdpTask)
  /\ lock.writer = NoTask => Len(messages) <= max_size

\* The subscriber went, a record was published after that, and then the ingestion task
\* was cancelled while its second add_message had not stored its record; the reader has
\* completed a call.
C31_Witness ==
  /\ Cancelled
  /\ dropPub >= 0
  /\ Len(published) > dropPub
  /\ nextRec > Len(appended)
  /\ rpc["r1"] = "done"

\* ------------------------------------------------------------ C32
\* C32: a step changes the store sequence only by appending the record of an add_message
\* that holds the write guard or by removing the head in its eviction loop; the entries
\* that stay are the same records with the same reception times in the same order; and a
\* step of get_messages, get_stats or subscribe leaves the sequence unchanged.
C32_EntriesAreImmutable ==
  [][/\ \/ messages' = messages
        \/ /\ \E a \in Adders : apc[a] = "waiting" /\ HoldsWrite(a) /\ apc'[a] = "evict"
           /\ Len(appended') = Len(appended) + 1
           /\ messages' = Append(messages, appended'[Len(appended')])
        \/ /\ \E a \in Adders : apc[a] = "evict" /\ HoldsWrite(a)
           /\ Len(messages) > max_size
           /\ messages' = Tail(messages)
     /\ (rpc' # rpc \/ rresult' # rresult \/ spc' # spc \/ rxCnt' # rxCnt) =>
          messages' = messages]_vars

\* The second record has evicted the first while a subscriber is subscribed and the
\* reader has completed a call.
C32_Witness ==
  /\ Len(appended) = 2
  /\ messages = <<appended[2]>>
  /\ IsSubscribed("s1")
  /\ rpc["r1"] = "done"

\* ------------------------------------------------------------ C37
\* C37: when the ingestion task has been cancelled, every record that was stored was
\* published and every record that was published was stored: the published messages are
\* the responses of the appended entries, one for one.
C37_CancelledAppendIsAllOrNothing ==
  Cancelled =>
    /\ Len(published) = Len(appended)
    /\ \A i \in DOMAIN appended : published[i] = to_response(appended[i])

\* The task was cancelled while its second add_message waited for the write lock: the
\* first record is stored and published, the second is neither.
C37_Witness ==
  /\ Cancelled
  /\ nextRec = 2
  /\ Len(appended) = 1
  /\ Len(published) = 1

\* ------------------------------------------------------------ C33
\* What the HTTP and stream clients are promised of an entry: its record and its reception
\* time, and nothing else.
Response(e) == [gelf_message |-> e.gelf_message, received_at |-> e.received_at]

\* The add_message calls that have inserted their record and not yet published it.
Unpublished == {a \in Adders : InsertedNotPublished(a)}

\* The messages a client has in hand: delivered on a stream or returned by get_messages.
InHand ==
  UNION {Range(delivered[s]) : s \in Subscribers}
    \cup UNION {Range(rresult[r]) : r \in {x \in Readers : rop[x] = "get"}}

\* C33: every accepted record is published exactly once (no record twice, and every
\* inserted record but those whose add_message is still before its send), and every
\* message published, delivered to a subscriber or returned by get_messages is the record
\* and the reception timestamp of the appended entry, without the raw text; so the
\* delivered message and the returned entry of one record are equal.
C33_PublishedOnceWithTheStoredTimestamp ==
  /\ NoDuplicates(Ids(published))
  /\ Len(appended) = Len(published) + Cardinality(Unpublished)
  /\ \A m \in Range(published) \cup InHand :
       /\ DOMAIN m = {"gelf_message", "received_at"}
       /\ \E e \in Range(appended) : m = Response(e)
  /\ \A m1, m2 \in InHand : m1.gelf_message = m2.gelf_message => m1 = m2

\* A record is delivered on the stream and, after the clock has moved on, returned by a
\* finished get_messages.
C33_Witness ==
  /\ rpc["r1"] = "done"
  /\ rop["r1"] = "get"
  /\ \E m \in Range(delivered["s1"]) : m \in Range(rresult["r1"]) /\ m.received_at < now

\* ------------------------------------------------------------ C34
TimestampsAscend(q) == \A i, j \in DOMAIN q : i <= j => q[i].received_at <= q[j].received_at

\* C34: in every reachable state the reception timestamps of the retained entries are
\* non-decreasing from the oldest to the newest, also under concurrent add_message calls
\* (the clock being monotonic). InMemoryMessageStore reads the clock when add_message is
\* called, before it waits for the write lock, so a call that read the clock first can
\* insert last.
C34_TimestampsFollowStoreOrder == TimestampsAscend(messages)

\* What holds of both stores: the store that stamps the entry under the write lock keeps
\* its timestamps in order, and the other one stamps no entry later than its insertion.
TimestampsAscendWhenStampedUnderLock ==
  /\ impl = "LogStore" => TimestampsAscend(messages)
  /\ \A e \in Range(messages) : e.received_at <= now

\* ------------------------------------------------------------ C36
\* The place of record k in the sequence of appended entries.
AppendedAt(k) == CHOOSE i \in DOMAIN appended : appended[i].gelf_message = k

PublishedInAppendOrder ==
  \A i, j \in DOMAIN published :
    i < j => AppendedAt(published[i].gelf_message) < AppendedAt(published[j].gelf_message)

\* C36: for any interleaving of concurrent add_message calls the Broadcast Messages are
\* published in the order in which their records were appended, so a subscriber sees the
\* records in the order of a later snapshot. InMemoryMessageStore publishes after it has
\* dropped the write guard, so two calls can append in one order and publish in the other.
C36_PublishOrderIsAppendOrder == PublishedInAppendOrder

\* What holds of both stores: the store that publishes under the write lock publishes in
\* append order, and the other one publishes nothing it has not appended.
PublishedInAppendOrderUnderLock ==
  /\ impl = "LogStore" => PublishedInAppendOrder
  /\ Range(Ids(published)) \subseteq Range(Ids(appended))

MainReturnedOnIngestion == mpc = "returned" /\ ppc = "terminated" /\ http = "serving"

\* ------------------------------------------------------------ C38
\* Whenever a task is queued for the lock, the lock is held, and every holder can step.
QueuedBehindAHolder ==
  /\ lock.queue # <<>> => lock.writer # NoTask \/ lock.readers # {}
  /\ HoldersCanStep

\* C38: under a fair lock and fair scheduling an add_message that waits for the write lock
\* gets it and completes although get_messages and get_stats calls keep arriving, and every
\* get_messages or get_stats call completes while add_message calls go on; no task is
\* queued for a lock that nobody holds or whose holder cannot step.
C38_NeitherWritersNorReadersStarve ==
  /\ \A a \in Adders : apc[a] = "waiting" ~> apc[a] = "idle"
  /\ \A r \in Readers : rpc[r] = "waiting" ~> rpc[r] = "done"
  /\ []QueuedBehindAHolder

\* A writer is queued behind a reader that holds the lock, with the other reader queued
\* behind the writer.
C38_Witness ==
  /\ lock.readers # {}
  /\ Len(lock.queue) = 2
  /\ lock.queue[1] \in Adders
  /\ lock.queue[2] \in Readers

\* ------------------------------------------------------------ C39
\* Record i had left the store when r took its snapshot: it is not in the snapshot and a
\* record appended after it is.
EvictedBeforeSnapshot(r, i) ==
  /\ appended[i] \notin Range(snap[r])
  /\ \E k \in DOMAIN snap[r] : AppendedAt(snap[r][k].gelf_message) > i

\* Message m is on s's subscription: it was published after s subscribed, and if s has
\* received that far, m is what it received there.
OnSubscription(s, m) ==
  \E j \in DOMAIN published :
    /\ published[j] = m
    /\ j > subPub[s]
    /\ j - subPub[s] <= Len(delivered[s]) => delivered[s][j - subPub[s]] = m

\* C39: a client that subscribes and then takes get_messages(None) misses no record: every
\* record the store has accepted and published is in that snapshot or on the subscription
\* (received, or next to be received in its turn), unless it was evicted before the
\* snapshot or the subscriber lagged; a record may be in both.
C39_SubscribeThenSnapshotMissesNothing ==
  (rpc["r1"] = "done" /\ rop["r1"] = "get" /\ KeptUp("s1")) =>
    \A i \in DOMAIN appended :
      LET m == Response(appended[i]) IN
        m \in Range(published) =>
          \/ m \in Range(rresult["r1"])
          \/ OnSubscription("s1", m)
          \/ EvictedBeforeSnapshot("r1", i)

\* The client has a snapshot with a record published before it subscribed, and has
\* received a later record that the snapshot does not have.
C39_Witness ==
  /\ rpc["r1"] = "done"
  /\ rop["r1"] = "get"
  /\ KeptUp("s1")
  /\ \E m \in Range(rresult["r1"]) : ~OnSubscription("s1", m)
  /\ \E m \in Range(delivered["s1"]) : m \notin Range(rresult["r1"])

\* The client has a record both in its snapshot and from its subscription.
InSnapshotAndDelivered ==
  /\ rpc["r1"] = "done"
  /\ rop["r1"] = "get"
  /\ \E m \in Range(delivered["s1"]) : m \in Range(rresult["r1"])

\* ------------------------------------------------------------ C40
\* What a sequence of recv_from results comes to, whichever pipeline handles it: for each
\* accepted datagram, in reception order, the record parsed from its text and that text.
Ingested(ev) ==
  LET ids == AcceptedIds(ev) IN
    [k \in 1..Len(ids) |->
       LET text == decompress(ev[ids[k]].data).text IN
         [gelf_message |-> parse(text).gelf_msg, raw_message |-> text]]

\* An entry without its clock reading.
Unstamped(q) ==
  [i \in DOMAIN q |-> [gelf_message |-> q[i].gelf_message, raw_message |-> q[i].raw_message]]

\* The loop is between two iterations.
BetweenIterations == ppc \in {"recv", "error"} /\ apc[UdpTask] = "idle"

\* C40: handle_udp_message on the LogStore and UdpMessageHandler::run on the
\* InMemoryMessageStore are equivalent: after any sequence of received payloads and receive
\* errors, either one holds the newest max_size of the ingested records with their texts,
\* oldest first, and has published the records of all of them in reception order, each
\* with the timestamp of its entry; the outcome is a function of the input alone.
C40_PipelinesAgree ==
  BetweenIterations =>
    LET all == Ingested(events) IN
      /\ Unstamped(messages) = LastN(all, Min(max_size, Len(all)))
      /\ Unstamped(appended) = all
      /\ published = [i \in DOMAIN appended |-> Response(appended[i])]

\* The monolithic pipeline has ingested one record more than its store keeps, and is
\* between two iterations.
C40_Witness ==
  /\ impl = "LogStore"
  /\ BetweenIterations
  /\ Len(Ingested(events)) = MaxCapacity + 1
  /\ Len(messages) = MaxCapacity
  /\ Len(published) = MaxCapacity + 1

\* The modular pipeline at the same point.
ModularAtTheSamePoint ==
  /\ impl = "InMemoryMessageStore"
  /\ BetweenIterations
  /\ Len(Ingested(events)) = MaxCapacity + 1
  /\ Len(messages) = MaxCapacity
  /\ Len(published) = MaxCapacity + 1

\* ------------------------------------------------------------ C10
\* C10 as stated: with the default store a subscriber with at most 100 unconsumed
\* messages receives a message on its next receive, and one with more than 100 gets the
\* lag signal.
C10_DefaultBoundIs100 ==
  \A s \in Subscribers :
    (IsSubscribed(s) /\ lagCount[s] = 0) =>
      /\ (Pending(s) >= 1 /\ Pending(s) <= DefaultChannelCapacity) =>
           RecvOutcome(snext[s]).kind = "ok"
      /\ Pending(s) > DefaultChannelCapacity => RecvOutcome(snext[s]).kind = "lagged"

====
